---------------------------- MODULE Spec2Model ----------------------------
(***************************************************************************)
(* A model of the zencefil template engine: lexer -> parser -> renderer.  *)
(*                                                                         *)
(* Strings are sequences of one-character strings, so that "" is <<>>,    *)
(* concatenation is \o and lexicographic comparison is computed.          *)
(* A Go *string is <<>> (nil) or <<s>>.  A Go error is a sequence of      *)
(* message kinds, outermost wrapper first; <<>> is the nil error.         *)
(* A Go interface{} value is a record tagged by its dynamic type.         *)
(***************************************************************************)
EXTENDS Integers, Sequences, FiniteSets, TLC

VARIABLES
    stage,      \* which call of the pipeline has been made so far
    lexer,      \* the Lexer, with the locals of Tokenize while it runs
    tokens,     \* Parser.tokens: the token list handed to parser.New
    parsed,     \* what Parse() did: nodes and error, or an abnormal end
    AST,        \* Renderer.AST
    Context,    \* Renderer.Context: the caller's map, mutated in place
    Context0,   \* the caller's map as it was before Render() was called
    rendered,   \* what Render() returned: [out, err]
    expr,       \* the EXPRESSION_NODE handed to evaluateExpression
    evaluated,  \* what evaluateExpression returned: [val, err]
    renderers   \* the goroutines that run Render() at the same time, each with
                \* its Renderer, its stack of calls and the value just returned

vars ==
    <<stage, lexer, tokens, parsed, AST, Context, Context0, rendered, expr, evaluated, renderers>>

----------------------------------------------------------------------------
(* Strings *)

\* The ASCII characters of the model's strings, as runs of consecutive codes:
\* each run is <<code of its first character, its characters>>.
AsciiRuns ==
    << <<32, << " ", "!" >> >>,
       <<35, << "#", "$", "%", "&", "'", "(", ")", "*", "+", ",", "-", ".", "/",
                "0", "1", "2", "3", "4", "5", "6", "7", "8", "9", ":", ";", "<", "=", ">", "?",
                "@", "A", "B", "C", "D", "E", "F", "G", "H", "I", "J", "K", "L", "M", "N", "O",
                "P", "Q", "R", "S", "T", "U", "V", "W", "X", "Y", "Z", "[" >> >>,
       <<93, << "]", "^", "_" >> >>,
       <<97, << "a", "b", "c", "d", "e", "f", "g", "h", "i", "j", "k", "l", "m", "n", "o",
                "p", "q", "r", "s", "t", "u", "v", "w", "x", "y", "z", "{", "|", "}", "~" >> >> >>

CharCode(c) ==
    LET r == CHOOSE r \in 1..Len(AsciiRuns) :
                 \E i \in 1..Len(AsciiRuns[r][2]) : AsciiRuns[r][2][i] = c
        i == CHOOSE i \in 1..Len(AsciiRuns[r][2]) : AsciiRuns[r][2][i] = c
    IN  AsciiRuns[r][1] + i - 1

\* strings.Compare / Go's < on strings: bytewise lexicographic, -1, 0 or 1.
RECURSIVE StrCompare(_, _)
StrCompare(a, b) ==
    IF a = <<>> /\ b = <<>> THEN 0
    ELSE IF a = <<>> THEN -1
    ELSE IF b = <<>> THEN 1
    ELSE IF CharCode(Head(a)) < CharCode(Head(b)) THEN -1
    ELSE IF CharCode(Head(a)) > CharCode(Head(b)) THEN 1
    ELSE StrCompare(Tail(a), Tail(b))

Digits == <<"0", "1", "2", "3", "4", "5", "6", "7", "8", "9">>

\* The decimal digits of a natural number.
RECURSIVE NatToStr(_)
NatToStr(n) ==
    IF n < 10 THEN <<Digits[n + 1]>>
    ELSE NatToStr(n \div 10) \o <<Digits[(n % 10) + 1]>>

IntToStr(n) == IF n < 0 THEN <<"-">> \o NatToStr(0 - n) ELSE NatToStr(n)

IsDigit(c) == \E i \in 1..10 : Digits[i] = c

DigitVal(c) == (CHOOSE i \in 1..10 : Digits[i] = c) - 1

RECURSIVE DigitsToNat(_, _)
DigitsToNat(s, acc) ==
    IF s = <<>> THEN acc ELSE DigitsToNat(Tail(s), acc * 10 + DigitVal(Head(s)))

\* strconv.ParseFloat on the literals of the model: an optionally signed run of
\* decimal digits.  [ok, n].
ParseFloat(s) ==
    LET body == IF s # <<>> /\ Head(s) \in {"-", "+"} THEN Tail(s) ELSE s
        neg  == s # <<>> /\ Head(s) = "-"
    IN  IF body # <<>> /\ \A i \in 1..Len(body) : IsDigit(body[i])
        THEN [ok |-> TRUE, n |-> IF neg THEN 0 - DigitsToNat(body, 0) ELSE DigitsToNat(body, 0)]
        ELSE [ok |-> FALSE, n |-> 0]

----------------------------------------------------------------------------
(* Values of the context: Go's interface{} *)

NilV        == [t |-> "nil"]
BoolV(b)    == [t |-> "bool", b |-> b]
IntV(n)     == [t |-> "int", n |-> n]
FloatV(n)   == [t |-> "float64", n |-> n]
StrV(s)     == [t |-> "string", s |-> s]
SliceV(l)   == [t |-> "slice", l |-> l]
MapV(m)     == [t |-> "map", m |-> m]

\* The keys of a Go map in increasing order, as fmt prints them.
RECURSIVE SortedKeys(_)
SortedKeys(ks) ==
    IF ks = {} THEN <<>>
    ELSE LET least == CHOOSE k \in ks : \A o \in ks : StrCompare(k, o) <= 0
         IN  <<least>> \o SortedKeys(ks \ {least})

\* fmt.Sprintf("%v", v)
RECURSIVE Sprintf(_), SprintfList(_, _), SprintfMap(_, _, _)
Sprintf(v) ==
    CASE v.t = "nil"     -> <<"<", "n", "i", "l", ">">>
      [] v.t = "bool"    -> IF v.b THEN <<"t", "r", "u", "e">> ELSE <<"f", "a", "l", "s", "e">>
      [] v.t = "int"     -> IntToStr(v.n)
      [] v.t = "float64" -> IntToStr(v.n)
      [] v.t = "string"  -> v.s
      [] v.t = "slice"   -> <<"[">> \o SprintfList(v.l, 1) \o <<"]">>
      [] v.t = "map"     -> <<"m", "a", "p", "[">>
                            \o SprintfMap(v.m, SortedKeys(DOMAIN v.m), 1) \o <<"]">>

SprintfList(l, i) ==
    IF i > Len(l) THEN <<>>
    ELSE (IF i > 1 THEN <<" ">> ELSE <<>>) \o Sprintf(l[i]) \o SprintfList(l, i + 1)

SprintfMap(m, ks, i) ==
    IF i > Len(ks) THEN <<>>
    ELSE (IF i > 1 THEN <<" ">> ELSE <<>>) \o ks[i] \o <<":">> \o Sprintf(m[ks[i]])
         \o SprintfMap(m, ks, i + 1)

isTruthy(v) ==
    CASE v.t = "nil"     -> FALSE
      [] v.t = "bool"    -> v.b
      [] v.t = "string"  -> v.s # <<>>
      [] v.t = "int"     -> v.n # 0
      [] v.t = "float64" -> v.n # 0
      [] v.t = "slice"   -> Len(v.l) > 0
      [] v.t = "map"     -> DOMAIN v.m # {}
      [] OTHER           -> TRUE

compareValues(a, b) ==
    IF a.t = "string" /\ b.t = "string" THEN StrCompare(a.s, b.s)
    ELSE IF a.t \in {"float64", "int"} /\ b.t \in {"float64", "int"}
    THEN (IF a.n < b.n THEN -1 ELSE IF a.n > b.n THEN 1 ELSE 0)
    ELSE IF a.t = "bool" /\ b.t = "bool"
    THEN (IF a.b = b.b THEN 0 ELSE IF a.b THEN 1 ELSE -1)
    ELSE StrCompare(Sprintf(a), Sprintf(b))

----------------------------------------------------------------------------
(* AST nodes: parser.Node{Value *string, Children []Node, Type NodeType} *)

Node(type, value, children) == [Type |-> type, Value |-> value, Children |-> children]

NilStr == <<>>
Ptr(s) == <<s>>
Deref(p) == p[1]

NoErr == <<>>
Errorf(kind) == <<kind>>

----------------------------------------------------------------------------
(* The renderer: expression evaluation *)

\* The precedence table of hasHigherPrecedence; a type that is not a key of the
\* Go map reads as 0.
precedence(op) ==
    CASE op = "OP_BANG" -> 5
      [] op \in {"OP_EQUALS", "OP_NOT_EQUALS", "OP_GT", "OP_LT", "OP_GTE", "OP_LTE"} -> 4
      [] op = "OP_AND" -> 2
      [] op = "OP_OR" -> 1
      [] OTHER -> 0

\* hasHigherPrecedence with a table in which every operator has the same precedence.
hasHigherPrecedence_NoTable(op1, op2) == FALSE

\* hasHigherPrecedence as "higher or equal".
hasHigherPrecedence_OrEqual(op1, op2) == precedence(op1) >= precedence(op2)

hasHigherPrecedence(op1, op2) == precedence(op1) > precedence(op2)

\* The two stacks of evaluateExpression, passed by pointer to the helpers.
Stacks(operands, operators) == [operandStack |-> operands, operatorStack |-> operators]

Top(s) == s[Len(s)]
Pop(s, n) == SubSeq(s, 1, Len(s) - n)

applyPendingBang(st) ==
    IF Len(st.operatorStack) > 0 /\ Top(st.operatorStack) = "OP_BANG"
    THEN Stacks(Pop(st.operandStack, 1) \o <<BoolV(~isTruthy(Top(st.operandStack)))>>,
                Pop(st.operatorStack, 1))
    ELSE st

\* The result of a binary operator on left and right; [ok, val].
ComparisonOps == {"OP_EQUALS", "OP_NOT_EQUALS", "OP_GT", "OP_LT", "OP_GTE", "OP_LTE"}

\* The comparison operators on the result c of compareValues.
comparison(op, c) ==
    CASE op = "OP_EQUALS"     -> c = 0
      [] op = "OP_NOT_EQUALS" -> c # 0
      [] op = "OP_GT"         -> c > 0
      [] op = "OP_LT"         -> c < 0
      [] op = "OP_GTE"        -> c >= 0
      [] op = "OP_LTE"        -> c <= 0

\* && and || returning the boolean of their operands instead of one of them.
applyBinary_Boolean(op, left, right) ==
    CASE op = "OP_AND" -> [ok |-> TRUE, val |-> BoolV(isTruthy(left) /\ isTruthy(right))]
      [] op = "OP_OR"  -> [ok |-> TRUE, val |-> BoolV(isTruthy(left) \/ isTruthy(right))]
      [] op \in ComparisonOps ->
           [ok |-> TRUE, val |-> BoolV(comparison(op, compareValues(left, right)))]
      [] OTHER -> [ok |-> FALSE, val |-> NilV]

applyBinary(op, left, right) ==
    CASE op = "OP_AND" -> [ok |-> TRUE, val |-> IF ~isTruthy(left) THEN left ELSE right]
      [] op = "OP_OR"  -> [ok |-> TRUE, val |-> IF isTruthy(left) THEN left ELSE right]
      [] op \in ComparisonOps ->
           [ok |-> TRUE, val |-> BoolV(comparison(op, compareValues(left, right)))]
      [] OTHER -> [ok |-> FALSE, val |-> NilV]

\* The end of evaluateTopOperator for a binary operator whose result is r: the
\* two operands are popped, the result pushed.
pushBinary(vals, ops, r) ==
    IF r.ok
    THEN [st |-> Stacks(Pop(vals, 2) \o <<r.val>>, ops), err |-> NoErr]
    ELSE [st |-> Stacks(Pop(vals, 2), ops), err |-> Errorf("unsupported operator")]

\* evaluateTopOperator: [st, err], st being the stacks as the call leaves them.
evaluateTopOperator(st) ==
    IF Len(st.operatorStack) < 1
    THEN [st |-> st, err |-> Errorf("invalid expression: no operator")]
    ELSE
    LET op   == Top(st.operatorStack)
        ops  == Pop(st.operatorStack, 1)
        vals == st.operandStack
    IN  IF op = "OP_BANG"
        THEN IF Len(vals) < 1
             THEN [st |-> Stacks(vals, ops),
                   err |-> Errorf("invalid expression: not enough operands for NOT operator")]
             ELSE [st |-> Stacks(Pop(vals, 1) \o <<BoolV(~isTruthy(Top(vals)))>>, ops),
                   err |-> NoErr]
        ELSE IF Len(vals) < 2
        THEN [st |-> Stacks(vals, ops), err |-> Errorf("invalid expression: not enough operands")]
        ELSE pushBinary(vals, ops, applyBinary(op, vals[Len(vals) - 1], vals[Len(vals)]))

\* variableLookup reading the map without its second result: a missing key is
\* the zero value, found.
variableLookup_ZeroValue(ctx, key) ==
    IF key \in DOMAIN ctx THEN [value |-> ctx[key], exists |-> TRUE]
    ELSE [value |-> NilV, exists |-> TRUE]

variableLookup(ctx, key) ==
    IF key \in DOMAIN ctx THEN [value |-> ctx[key], exists |-> TRUE]
    ELSE [value |-> NilV, exists |-> FALSE]

BinaryOps ==
    {"OP_AND", "OP_OR", "OP_EQUALS", "OP_NOT_EQUALS", "OP_GT", "OP_LT", "OP_GTE", "OP_LTE"}

EvalFail(err) == [val |-> BoolV(FALSE), err |-> err]

RECURSIVE evaluateExpression(_, _), evalChildren(_, _, _, _), evalOperator(_, _, _, _, _),
          evalNested(_, _, _, _, _), evalPopHigher(_, _), evalPopped(_, _), evalDrain(_),
          evalDrained(_)

\* The inner loop of a binary operator: apply the stacked operators of higher
\* precedence than the incoming one.  [st, err].
evalPopHigher(st, incoming) ==
    IF Len(st.operatorStack) > 0 /\ hasHigherPrecedence(Top(st.operatorStack), incoming)
    THEN evalPopped(evaluateTopOperator(st), incoming)
    ELSE [st |-> st, err |-> NoErr]

\* One turn of that loop, r being what evaluateTopOperator returned.
evalPopped(r, incoming) == IF r.err # NoErr THEN r ELSE evalPopHigher(r.st, incoming)

\* "Evaluate remaining operators", then the final check.
evalDrain(st) ==
    IF Len(st.operatorStack) > 0
    THEN evalDrained(evaluateTopOperator(st))
    ELSE IF Len(st.operandStack) # 1
    THEN EvalFail(Errorf("invalid expression: expected 1 final result"))
    ELSE [val |-> st.operandStack[1], err |-> NoErr]

\* One turn of that loop, r being what evaluateTopOperator returned.
evalDrained(r) == IF r.err # NoErr THEN EvalFail(r.err) ELSE evalDrain(r.st)

\* The case of a binary operator, r being what its inner loop returned.
evalOperator(children, i, op, r, ctx) ==
    IF r.err # NoErr THEN EvalFail(r.err)
    ELSE evalChildren(children, i + 1,
                      Stacks(r.st.operandStack, r.st.operatorStack \o <<op>>), ctx)

\* The case of a nested EXPRESSION_NODE, nested being what its evaluation returned.
evalNested(children, i, st, nested, ctx) ==
    IF nested.err # NoErr
    THEN EvalFail(<<"failed to evaluate nested expression">> \o nested.err)
    ELSE evalChildren(children, i + 1,
                      applyPendingBang(Stacks(st.operandStack \o <<nested.val>>,
                                              st.operatorStack)), ctx)

\* The loop over node.Children not reading a variable that || or && will not
\* select: the right operand of || after a truthy left operand, and of && after
\* a falsy one, is pushed as nil without a lookup.
evalChildren_ShortCircuit(children, i, st, ctx) ==
    IF i > Len(children) THEN evalDrain(st)
    ELSE
    LET v == children[i]
        push(value) == applyPendingBang(Stacks(st.operandStack \o <<value>>, st.operatorStack))
        skipped == /\ Len(st.operatorStack) > 0 /\ Len(st.operandStack) > 0
                   /\ \/ Top(st.operatorStack) = "OP_OR" /\ isTruthy(Top(st.operandStack))
                      \/ Top(st.operatorStack) = "OP_AND" /\ ~isTruthy(Top(st.operandStack))
    IN  CASE v.Type = "VARIABLE_NODE" ->
               IF v.Value = NilStr THEN EvalFail(Errorf("variable node has nil value"))
               ELSE IF skipped THEN evalChildren(children, i + 1, push(NilV), ctx)
               ELSE IF ~variableLookup(ctx, Deref(v.Value)).exists
               THEN EvalFail(Errorf("variable not found in context"))
               ELSE evalChildren(children, i + 1,
                                 push(variableLookup(ctx, Deref(v.Value)).value), ctx)
          [] v.Type = "EXPRESSION_NODE" ->
               evalNested(children, i, st, evaluateExpression(v, ctx), ctx)
          [] v.Type = "STRING_LITERAL_NODE" ->
               evalChildren(children, i + 1, push(StrV(Deref(v.Value))), ctx)
          [] v.Type = "NUMBER_LITERAL_NODE" ->
               IF ParseFloat(Deref(v.Value)).ok
               THEN evalChildren(children, i + 1, push(FloatV(ParseFloat(Deref(v.Value)).n)), ctx)
               ELSE EvalFail(Errorf("invalid number literal"))
          [] v.Type = "OP_BANG" ->
               evalChildren(children, i + 1,
                            Stacks(st.operandStack, st.operatorStack \o <<"OP_BANG">>), ctx)
          [] v.Type \in BinaryOps ->
               evalOperator(children, i, v.Type, evalPopHigher(st, v.Type), ctx)
          [] OTHER -> evalChildren(children, i + 1, st, ctx)

\* The loop over node.Children, from child i on.
evalChildren(children, i, st, ctx) ==
    IF i > Len(children) THEN evalDrain(st)
    ELSE
    LET v == children[i]
        push(value) == applyPendingBang(Stacks(st.operandStack \o <<value>>, st.operatorStack))
    IN  CASE v.Type = "VARIABLE_NODE" ->
               IF v.Value = NilStr THEN EvalFail(Errorf("variable node has nil value"))
               ELSE IF ~variableLookup(ctx, Deref(v.Value)).exists
               THEN EvalFail(Errorf("variable not found in context"))
               ELSE evalChildren(children, i + 1,
                                 push(variableLookup(ctx, Deref(v.Value)).value), ctx)
          [] v.Type = "EXPRESSION_NODE" ->
               evalNested(children, i, st, evaluateExpression(v, ctx), ctx)
          [] v.Type = "STRING_LITERAL_NODE" ->
               evalChildren(children, i + 1, push(StrV(Deref(v.Value))), ctx)
          [] v.Type = "NUMBER_LITERAL_NODE" ->
               IF ParseFloat(Deref(v.Value)).ok
               THEN evalChildren(children, i + 1, push(FloatV(ParseFloat(Deref(v.Value)).n)), ctx)
               ELSE EvalFail(Errorf("invalid number literal"))
          [] v.Type = "OP_BANG" ->
               evalChildren(children, i + 1,
                            Stacks(st.operandStack, st.operatorStack \o <<"OP_BANG">>), ctx)
          [] v.Type \in BinaryOps ->
               evalOperator(children, i, v.Type, evalPopHigher(st, v.Type), ctx)
          [] OTHER -> evalChildren(children, i + 1, st, ctx)

evaluateExpression(node, ctx) == evalChildren(node.Children, 1, Stacks(<<>>, <<>>), ctx)

----------------------------------------------------------------------------
(* The renderer: nodes.  Every function returns [out, err, ctx]: the string  *)
(* and error of the Go function, and r.Context as the call leaves it.        *)

Result(out, err, ctx) == [out |-> out, err |-> err, ctx |-> ctx]

\* &RenderError{Message: kind}
RenderError(kind) == <<kind>>

\* evaluateCondition taking the truthiness of any value.
evaluateCondition_Truthy(ctx, key) ==
    LET found == variableLookup(ctx, key)
    IN  IF ~found.exists
        THEN [val |-> FALSE, err |-> RenderError("condition variable not found in context")]
        ELSE [val |-> isTruthy(found.value), err |-> NoErr]

\* evaluateCondition: [val, err]
evaluateCondition(ctx, key) ==
    LET found == variableLookup(ctx, key)
    IN  IF ~found.exists
        THEN [val |-> FALSE, err |-> RenderError("condition variable not found in context")]
        ELSE IF found.value.t # "bool"
        THEN [val |-> FALSE, err |-> RenderError("condition variable is not a boolean")]
        ELSE [val |-> found.value.b, err |-> NoErr]

\* The first loop of renderForNode over node.Children, from child i on:
\* [iteratee, iterator, err].
RECURSIVE forHeader(_, _, _, _, _)

\* The first loop of renderForNode ranging over nothing when the iterator is
\* missing or is no slice.
forHeader_NoIteratorCheck(children, i, iteratee, iterator, ctx) ==
    IF i > Len(children) THEN [iteratee |-> iteratee, iterator |-> iterator, err |-> NoErr]
    ELSE IF children[i].Type = "ITERATEE_ITEM"
    THEN forHeader(children, i + 1, Deref(children[i].Value), iterator, ctx)
    ELSE IF children[i].Type = "ITERATOR_ITEM"
            /\ variableLookup(ctx, Deref(children[i].Value)).value.t = "slice"
    THEN forHeader(children, i + 1, iteratee, variableLookup(ctx, Deref(children[i].Value)).value.l, ctx)
    ELSE forHeader(children, i + 1, iteratee, iterator, ctx)
forHeader(children, i, iteratee, iterator, ctx) ==
    IF i > Len(children) THEN [iteratee |-> iteratee, iterator |-> iterator, err |-> NoErr]
    ELSE
    LET forNode == children[i]
        fail(kind) == [iteratee |-> iteratee, iterator |-> iterator, err |-> RenderError(kind)]
    IN  CASE forNode.Type = "ITERATEE_ITEM" ->
               IF forNode.Value = NilStr THEN fail("iteratee item has nil value")
               ELSE forHeader(children, i + 1, Deref(forNode.Value), iterator, ctx)
          [] forNode.Type = "ITERATOR_ITEM" ->
               IF forNode.Value = NilStr THEN fail("iterator item has nil value")
               ELSE LET found == variableLookup(ctx, Deref(forNode.Value))
                    IN  IF ~found.exists
                        THEN fail("iterator variable not found in context")
                        ELSE IF found.value.t # "slice"
                        THEN fail("iterator must be a slice")
                        ELSE forHeader(children, i + 1, iteratee, found.value.l, ctx)
          [] OTHER -> forHeader(children, i + 1, iteratee, iterator, ctx)

\* delete(r.Context, key)
MapDelete(ctx, key) == [k \in (DOMAIN ctx) \ {key} |-> ctx[k]]

\* r.Context[key] = value
MapSet(ctx, key, value) == [k \in (DOMAIN ctx) \cup {key} |-> IF k = key THEN value ELSE ctx[k]]

\* The end of a FOR_BODY removing the iteratee's entry, whatever it was before.
forRestore_Delete(ctx, iteratee, original) == MapDelete(ctx, iteratee)

\* "Restore original context" at the end of a FOR_BODY.
forRestore(ctx, iteratee, original) ==
    IF original.exists THEN MapSet(ctx, iteratee, original.value) ELSE MapDelete(ctx, iteratee)

RECURSIVE renderNodes(_, _), renderNodesFrom(_, _, _, _), renderNodesNext(_, _, _, _),
          renderNode(_, _),
          renderForNode(_, _), forChildren(_, _, _, _, _, _), forBody(_, _, _, _, _, _),
          forItems(_, _, _, _, _, _), forItem(_, _, _, _, _, _),
          renderIfNode(_, _), ifBranches(_, _, _), ifElifElse(_, _),
          renderElifBranches(_, _), elifBranches(_, _, _), elifBranch(_, _, _, _),
          elifItems(_, _, _), elifItem(_, _, _, _),
          renderConditionalBranch(_, _, _), conditionalBranchFrom(_, _, _, _)

\* renderNodes returning what it has written so far when a node fails.
renderNodesNext_KeepsText(nodes, i, sb, r) ==
    IF r.err # NoErr THEN Result(sb, r.err, r.ctx)
    ELSE renderNodesFrom(nodes, i + 1, sb \o r.out, r.ctx)

\* One turn of the loop of renderNodes, r being what renderNode returned for
\* node i and sb the text written before it.
renderNodesNext(nodes, i, sb, r) ==
    IF r.err # NoErr THEN Result(<<>>, r.err, r.ctx)
    ELSE renderNodesFrom(nodes, i + 1, sb \o r.out, r.ctx)

\* The loop of renderNodes from node i on, sb holding the text written so far.
renderNodesFrom(nodes, i, sb, ctx) ==
    IF i > Len(nodes) THEN Result(sb, NoErr, ctx)
    ELSE renderNodesNext(nodes, i, sb, renderNode(nodes[i], ctx))

renderNodes(nodes, ctx) == renderNodesFrom(nodes, 1, <<>>, ctx)

\* The EXPRESSION_NODE case of renderNode, e being what evaluateExpression returned.
renderExpression(e, ctx) ==
    IF e.err # NoErr THEN Result(<<>>, e.err, ctx)
    ELSE Result(Sprintf(e.val), NoErr, ctx)

renderNode(node, ctx) ==
    CASE node.Type = "TEXT_NODE" ->
           IF node.Value = NilStr
           THEN Result(<<>>, RenderError("text node has nil value"), ctx)
           ELSE Result(Deref(node.Value), NoErr, ctx)
      [] node.Type = "VARIABLE_NODE" ->
           IF node.Value = NilStr
           THEN Result(<<>>, RenderError("variable node has nil value"), ctx)
           ELSE IF ~variableLookup(ctx, Deref(node.Value)).exists
           THEN Result(<<>>, RenderError("variable not found in context"), ctx)
           ELSE Result(Sprintf(variableLookup(ctx, Deref(node.Value)).value), NoErr, ctx)
      [] node.Type = "EXPRESSION_NODE" -> renderExpression(evaluateExpression(node, ctx), ctx)
      [] node.Type = "IF_NODE" -> renderIfNode(node, ctx)
      [] node.Type = "FOR_NODE" -> renderForNode(node, ctx)
      [] OTHER -> Result(<<>>, RenderError("unknown node type"), ctx)

\* The loop over the iterator keeping only what the last item rendered to.
forItem_KeepsLast(body, iteratee, iterator, j, sb, r) ==
    IF r.err # NoErr
    THEN Result(<<>>, <<"error in for loop">> \o r.err, r.ctx)
    ELSE forItems(body, iteratee, iterator, j + 1, r.out, r.ctx)

\* One turn of the loop over the iterator, r being what renderNodes returned for
\* item j: an error returns at once, the context as the body left it.
forItem(body, iteratee, iterator, j, sb, r) ==
    IF r.err # NoErr
    THEN Result(<<>>, <<"error in for loop">> \o r.err, r.ctx)
    ELSE forItems(body, iteratee, iterator, j + 1, sb \o r.out, r.ctx)

\* The loop "for _, item := range iterator" from item j on.
forItems(body, iteratee, iterator, j, sb, ctx) ==
    IF j > Len(iterator) THEN Result(sb, NoErr, ctx)
    ELSE forItem(body, iteratee, iterator, j, sb,
                 renderNodes(body, MapSet(ctx, iteratee, iterator[j])))

\* The end of a FOR_BODY, r being what the loop over the iterator returned and
\* original the iteratee's entry before the loop.
forBody(children, i, iteratee, iterator, original, r) ==
    IF r.err # NoErr THEN r
    ELSE forChildren(children, i + 1, iteratee, iterator, r.out,
                     forRestore(r.ctx, iteratee, original))

\* The second loop of renderForNode over node.Children, from child i on.
forChildren(children, i, iteratee, iterator, sb, ctx) ==
    IF i > Len(children) THEN Result(sb, NoErr, ctx)
    ELSE IF children[i].Type # "FOR_BODY"
    THEN forChildren(children, i + 1, iteratee, iterator, sb, ctx)
    ELSE forBody(children, i, iteratee, iterator, variableLookup(ctx, iteratee),
                 forItems(children[i].Children, iteratee, iterator, 1, sb, ctx))

renderForNode(node, ctx) ==
    LET h == forHeader(node.Children, 1, <<>>, <<>>, ctx)
    IN  IF h.err # NoErr THEN Result(<<>>, h.err, ctx)
        ELSE forChildren(node.Children, 1, h.iteratee, h.iterator, <<>>, ctx)

\* The loop of renderConditionalBranch from node i on.
conditionalBranchFrom(nodes, i, branchType, ctx) ==
    IF i > Len(nodes) THEN Result(<<>>, NoErr, ctx)
    ELSE IF nodes[i].Type = branchType THEN renderNodes(nodes[i].Children, ctx)
    ELSE conditionalBranchFrom(nodes, i + 1, branchType, ctx)

renderConditionalBranch(nodes, branchType, ctx) == conditionalBranchFrom(nodes, 1, branchType, ctx)

\* The condition an EXPRESSION_NODE gives, e being what evaluateExpression returned.
expressionCondition(e) ==
    [known |-> TRUE, val |-> e.err = NoErr /\ isTruthy(e.val), err |-> e.err]

\* The condition a VARIABLE_NODE gives, c being what evaluateCondition returned.
variableCondition(c) == [known |-> TRUE, val |-> c.val, err |-> c.err]

\* The condition of an if or elif: [known, val, err]; known is FALSE for a node
\* that is neither a VARIABLE_NODE nor an EXPRESSION_NODE.
conditionOf(conditionNode, ctx) ==
    CASE conditionNode.Type = "VARIABLE_NODE" ->
           variableCondition(evaluateCondition(ctx, Deref(conditionNode.Value)))
      [] conditionNode.Type = "EXPRESSION_NODE" ->
           expressionCondition(evaluateExpression(conditionNode, ctx))
      [] OTHER -> [known |-> FALSE, val |-> FALSE, err |-> NoErr]

\* One ELIF_ITEM, c being its condition: [returned, res]; returned is FALSE when
\* the loop ran to its end.
elifItem(items, j, ctx, c) ==
    IF ~c.known
    THEN [returned |-> TRUE,
          res |-> Result(<<>>, RenderError("elif node has nil condition"), ctx)]
    ELSE IF c.err # NoErr THEN [returned |-> TRUE, res |-> Result(<<>>, c.err, ctx)]
    ELSE IF c.val THEN [returned |-> TRUE, res |-> renderNodes(Tail(items[j].Children), ctx)]
    ELSE elifItems(items, j + 1, ctx)

\* The inner loop of renderElifBranches evaluating the conditions of all the
\* items left before it looks at the first: an error of any of them is returned.
elifItems_Eager(items, j, ctx) ==
    IF j > Len(items) THEN [returned |-> FALSE, res |-> Result(<<>>, NoErr, ctx)]
    ELSE IF \E i \in j..Len(items) : conditionOf(items[i].Children[1], ctx).err # NoErr
    THEN [returned |-> TRUE,
          res |-> Result(<<>>, RenderError("condition variable not found in context"), ctx)]
    ELSE elifItem(items, j, ctx, conditionOf(items[j].Children[1], ctx))

\* The inner loop of renderElifBranches over the ELIF_ITEMs of one ELIF_BRANCH,
\* from item j on.
elifItems(items, j, ctx) ==
    IF j > Len(items) THEN [returned |-> FALSE, res |-> Result(<<>>, NoErr, ctx)]
    ELSE elifItem(items, j, ctx, conditionOf(items[j].Children[1], ctx))

\* One ELIF_BRANCH, r being what the loop over its items returned.
elifBranch(nodes, i, ctx, r) ==
    IF r.returned THEN r.res ELSE elifBranches(nodes, i + 1, ctx)

\* The outer loop of renderElifBranches from node i on.
elifBranches(nodes, i, ctx) ==
    IF i > Len(nodes) THEN Result(<<>>, NoErr, ctx)
    ELSE IF nodes[i].Type # "ELIF_BRANCH" THEN elifBranches(nodes, i + 1, ctx)
    ELSE elifBranch(nodes, i, ctx, elifItems(nodes[i].Children, 1, ctx))

renderElifBranches(nodes, ctx) == elifBranches(nodes, 1, ctx)

\* The tail of renderIfNode, elif being what renderElifBranches returned: an
\* elif result that is not the empty string is returned, otherwise the else
\* branch is rendered.
ifElifElse(node, elif) ==
    IF elif.err # NoErr THEN Result(<<>>, elif.err, elif.ctx)
    ELSE IF elif.out # <<>> THEN Result(elif.out, NoErr, elif.ctx)
    ELSE renderConditionalBranch(node.Children, "ELSE_BRANCH", elif.ctx)

\* renderIfNode once its condition c is evaluated.
ifBranches(node, ctx, c) ==
    IF ~c.known THEN Result(<<>>, RenderError("if node has nil condition"), ctx)
    ELSE IF c.err # NoErr THEN Result(<<>>, c.err, ctx)
    ELSE IF c.val THEN renderConditionalBranch(node.Children, "THEN_BRANCH", ctx)
    ELSE ifElifElse(node, renderElifBranches(node.Children, ctx))

renderIfNode(node, ctx) == ifBranches(node, ctx, conditionOf(node.Children[1], ctx))

\* Renderer.Render
Render(ast, ctx) == renderNodes(ast, ctx)

----------------------------------------------------------------------------
(* The renderer: the nodes as a call leaves them.  Node is a struct holding    *)
(* a slice: a function that gets a Node, and a loop "for _, n := range nodes", *)
(* work on a copy of the struct that shares the array of its Children, so a    *)
(* write is seen by the caller when it is to an element of a slice, and is not *)
(* when it is to a field of the copy.  The functions below follow the path of  *)
(* the rendering functions and return the slice they were given as they leave  *)
(* it.                                                                         *)

\* The loop over the ELIF_ITEMs writing its "elifNode.Children[1:]" to the element
\* of node.Children.
elifNodeLeft_InPlace(element) == [element EXCEPT !.Children = Tail(@)]

\* An element of the Children of an ELIF_BRANCH after its turn of the loop
\* "for _, elifNode := range node.Children": the assignment
\* "elifNode.Children = elifNode.Children[1:]" is to the loop's copy.
elifNodeLeft(element) == element

RECURSIVE nodesLeft(_, _, _), nodesLeftNext(_, _, _, _), nodeLeft(_, _),
          ifLeft(_, _, _), branchLeft(_, _, _, _), elseLeft(_, _),
          elifBranchesLeft(_, _, _), elifBranchLeft(_, _, _, _),
          elifItemsLeft(_, _, _), elifItemLeft(_, _, _, _),
          forLeft(_, _, _), forChildrenLeft(_, _, _, _, _), forBodyLeft(_, _, _, _, _, _, _),
          forItemsLeft(_, _, _, _, _), forItemLeft(_, _, _, _, _, _)

\* renderNodes from node i on.
nodesLeft(nodes, i, ctx) ==
    IF i > Len(nodes) THEN nodes
    ELSE nodesLeftNext(nodes, i, renderNode(nodes[i], ctx), nodeLeft(nodes[i], ctx))

\* r is what renderNode returned for node i, left the node as it left it.
nodesLeftNext(nodes, i, r, left) ==
    IF r.err # NoErr THEN [nodes EXCEPT ![i] = left]
    ELSE nodesLeft([nodes EXCEPT ![i] = left], i + 1, r.ctx)

\* renderNode
nodeLeft(node, ctx) ==
    CASE node.Type = "IF_NODE"  -> ifLeft(node, ctx, conditionOf(node.Children[1], ctx))
      [] node.Type = "FOR_NODE" -> forLeft(node, ctx, forHeader(node.Children, 1, <<>>, <<>>, ctx))
      [] OTHER -> node

\* renderConditionalBranch from node i on.
branchLeft(nodes, i, branchType, ctx) ==
    IF i > Len(nodes) THEN nodes
    ELSE IF nodes[i].Type = branchType
    THEN [nodes EXCEPT ![i].Children = nodesLeft(@, 1, ctx)]
    ELSE branchLeft(nodes, i + 1, branchType, ctx)

\* One ELIF_ITEM, c being its condition.
elifItemLeft(items, j, ctx, c) ==
    IF ~c.known \/ c.err # NoErr THEN [items EXCEPT ![j] = elifNodeLeft(@)]
    ELSE IF c.val
    THEN [items EXCEPT
             ![j] = elifNodeLeft([@ EXCEPT !.Children = <<Head(@)>> \o nodesLeft(Tail(@), 1, ctx)])]
    ELSE elifItemsLeft([items EXCEPT ![j] = elifNodeLeft(@)], j + 1, ctx)

\* The inner loop of renderElifBranches from item j on.
elifItemsLeft(items, j, ctx) ==
    IF j > Len(items) THEN items
    ELSE elifItemLeft(items, j, ctx, conditionOf(items[j].Children[1], ctx))

\* One ELIF_BRANCH, r being what the loop over its items returned and left its
\* items as the loop left them.
elifBranchLeft(nodes, i, ctx, r) ==
    IF r.returned THEN nodes ELSE elifBranchesLeft(nodes, i + 1, ctx)

\* The outer loop of renderElifBranches from node i on.
elifBranchesLeft(nodes, i, ctx) ==
    IF i > Len(nodes) THEN nodes
    ELSE IF nodes[i].Type # "ELIF_BRANCH" THEN elifBranchesLeft(nodes, i + 1, ctx)
    ELSE elifBranchLeft([nodes EXCEPT ![i].Children = elifItemsLeft(@, 1, ctx)], i, ctx,
                        elifItems(nodes[i].Children, 1, ctx))

\* The tail of renderIfNode, nodes being node.Children as renderElifBranches left
\* them and elif what it returned.
elseLeft(nodes, elif) ==
    IF elif.err # NoErr \/ elif.out # <<>> THEN nodes
    ELSE branchLeft(nodes, 1, "ELSE_BRANCH", elif.ctx)

\* renderIfNode once its condition c is evaluated.
ifLeft(node, ctx, c) ==
    IF ~c.known \/ c.err # NoErr THEN node
    ELSE IF c.val THEN [node EXCEPT !.Children = branchLeft(@, 1, "THEN_BRANCH", ctx)]
    ELSE [node EXCEPT !.Children = elseLeft(elifBranchesLeft(@, 1, ctx),
                                            renderElifBranches(node.Children, ctx))]

\* One turn of the loop over the iterator, r being what renderNodes returned for
\* item j and left the body as it left it.
forItemLeft(left, iteratee, iterator, j, ctx, r) ==
    IF r.err # NoErr THEN left ELSE forItemsLeft(left, iteratee, iterator, j + 1, r.ctx)

\* The loop "for _, item := range iterator" from item j on.
forItemsLeft(body, iteratee, iterator, j, ctx) ==
    IF j > Len(iterator) THEN body
    ELSE forItemLeft(nodesLeft(body, 1, MapSet(ctx, iteratee, iterator[j])),
                     iteratee, iterator, j, ctx,
                     renderNodes(body, MapSet(ctx, iteratee, iterator[j])))

\* The end of a FOR_BODY, r being what the loop over the iterator returned and
\* left the body as the loop left it.
forBodyLeft(children, i, iteratee, iterator, original, r, left) ==
    IF r.err # NoErr THEN [children EXCEPT ![i].Children = left]
    ELSE forChildrenLeft([children EXCEPT ![i].Children = left], i + 1, iteratee, iterator,
                         forRestore(r.ctx, iteratee, original))

\* The second loop of renderForNode from child i on.
forChildrenLeft(children, i, iteratee, iterator, ctx) ==
    IF i > Len(children) THEN children
    ELSE IF children[i].Type # "FOR_BODY"
    THEN forChildrenLeft(children, i + 1, iteratee, iterator, ctx)
    ELSE forBodyLeft(children, i, iteratee, iterator, variableLookup(ctx, iteratee),
                     forItems(children[i].Children, iteratee, iterator, 1, <<>>, ctx),
                     forItemsLeft(children[i].Children, iteratee, iterator, 1, ctx))

\* renderForNode, h being what its first loop found.
forLeft(node, ctx, h) ==
    IF h.err # NoErr THEN node
    ELSE [node EXCEPT !.Children = forChildrenLeft(@, 1, h.iteratee, h.iterator, ctx)]

\* The AST after Renderer.Render.
RenderLeft(ast, ctx) == nodesLeft(ast, 1, ctx)

----------------------------------------------------------------------------
(* The renderer, step by step: Render() as a goroutine runs it.  A goroutine *)
(* is its Renderer, the stack of its calls that have not returned, and the   *)
(* value that a call has just returned.  The maps of the callers are on the  *)
(* heap, a Renderer holds the address of one.  A step reads r.Context as     *)
(* often as it likes and writes it at most once.  The nodes are only read    *)
(* (RenderLeft), so a frame holds the value of the slice it ranges over.     *)

\* renderer.New with one map for all the renderers, whatever the caller gives.
NewRenderer_OneContext(ast, context) == [Context |-> 1, AST |-> ast]

\* renderer.New(ast, context), context being the address of the caller's map
\* (never nil here).
NewRenderer(ast, context) == [Context |-> context, AST |-> ast]

\* The goroutine that is about to call r.Render().
Goroutine(r) == [r |-> r, stack |-> <<>>, ret |-> <<>>, at |-> "new"]

\* The frame of renderNodes(nodes) at turn i of its loop.
nodesFrame(nodes, i) == [fn |-> "renderNodes", nodes |-> nodes, i |-> i, sb |-> <<>>]

\* The frame of renderForNode after its first loop found h: in its second loop
\* at child i and, inside a FOR_BODY, at item j of the iterator.
forFrame(children, h) ==
    [fn |-> "renderForNode", children |-> children, i |-> 1, at |-> "children",
     iteratee |-> h.iteratee, iterator |-> h.iterator, j |-> 0,
     original |-> [value |-> NilV, exists |-> FALSE], sb |-> <<>>]

\* The frame of renderIfNode waiting for what renderElifBranches returns.
ifFrame(children) == [fn |-> "renderIfNode", children |-> children]

Push(g, frame)  == [g EXCEPT !.stack = Append(@, frame), !.ret = <<>>]
PopFrame(g)     == [g EXCEPT !.stack = Pop(@, 1)]
SetTop(g, frame) == [g EXCEPT !.stack = Pop(@, 1) \o <<frame>>, !.ret = <<>>]

\* return out, err: the value goes to the frame on top of the stack.
Returns(g, out, err) == [g EXCEPT !.ret = <<[out |-> out, err |-> err]>>]

\* renderConditionalBranch from node i on: the call of renderNodes on the
\* branch, whose result is returned as it is; "" when there is no such branch.
RECURSIVE callBranch(_, _, _, _)
callBranch(g, nodes, i, branchType) ==
    IF i > Len(nodes) THEN Returns(g, <<>>, NoErr)
    ELSE IF nodes[i].Type = branchType THEN Push(g, nodesFrame(nodes[i].Children, 1))
    ELSE callBranch(g, nodes, i + 1, branchType)

\* The loops of renderElifBranches up to the call of renderNodes: [kind, err,
\* body], kind being "error", "body" (the body of the first truthy item) or
\* "none".
RECURSIVE elifSelectItems(_, _, _), elifSelectItem(_, _, _, _), elifSelect(_, _, _),
          elifSelected(_, _, _, _)
elifSelectItem(items, j, ctx, c) ==
    IF ~c.known
    THEN [kind |-> "error", err |-> RenderError("elif node has nil condition"), body |-> <<>>]
    ELSE IF c.err # NoErr THEN [kind |-> "error", err |-> c.err, body |-> <<>>]
    ELSE IF c.val THEN [kind |-> "body", err |-> NoErr, body |-> Tail(items[j].Children)]
    ELSE elifSelectItems(items, j + 1, ctx)
elifSelectItems(items, j, ctx) ==
    IF j > Len(items) THEN [kind |-> "none", err |-> NoErr, body |-> <<>>]
    ELSE elifSelectItem(items, j, ctx, conditionOf(items[j].Children[1], ctx))
elifSelected(nodes, i, ctx, sel) ==
    IF sel.kind = "none" THEN elifSelect(nodes, i + 1, ctx) ELSE sel
elifSelect(nodes, i, ctx) ==
    IF i > Len(nodes) THEN [kind |-> "none", err |-> NoErr, body |-> <<>>]
    ELSE IF nodes[i].Type # "ELIF_BRANCH" THEN elifSelect(nodes, i + 1, ctx)
    ELSE elifSelected(nodes, i, ctx, elifSelectItems(nodes[i].Children, 1, ctx))

\* renderIfNode calling renderElifBranches, sel being what its loops select.
callElif(g, node, sel) ==
    CASE sel.kind = "error" -> Returns(Push(g, ifFrame(node.Children)), <<>>, sel.err)
      [] sel.kind = "body"  -> Push(Push(g, ifFrame(node.Children)), nodesFrame(sel.body, 1))
      [] sel.kind = "none"  -> Returns(Push(g, ifFrame(node.Children)), <<>>, NoErr)

\* renderIfNode once its condition c is evaluated.
callIf(g, node, ctx, c) ==
    IF ~c.known THEN Returns(g, <<>>, RenderError("if node has nil condition"))
    ELSE IF c.err # NoErr THEN Returns(g, <<>>, c.err)
    ELSE IF c.val THEN callBranch(g, node.Children, 1, "THEN_BRANCH")
    ELSE callElif(g, node, elifSelect(node.Children, 1, ctx))

\* renderForNode once its first loop has found h.
callFor(g, node, h) ==
    IF h.err # NoErr THEN Returns(g, <<>>, h.err)
    ELSE Push(g, forFrame(node.Children, h))

\* A node that calls no renderNodes, r being what renderNode returned for it.
leafReturns(g, r) == Returns(g, r.out, r.err)

\* renderNode(node) up to its return, or up to the call it makes.
callNode(g, node, ctx) ==
    CASE node.Type = "IF_NODE"  -> callIf(g, node, ctx, conditionOf(node.Children[1], ctx))
      [] node.Type = "FOR_NODE" -> callFor(g, node, forHeader(node.Children, 1, <<>>, <<>>, ctx))
      [] OTHER -> leafReturns(g, renderNode(node, ctx))

\* One turn of the loop of renderNodes, f being its frame: the call of
\* renderNode on node i, or the return of what was written.
nodesTurn(g, f, ctx) ==
    IF f.i > Len(f.nodes) THEN Returns(PopFrame(g), f.sb, NoErr)
    ELSE callNode(g, f.nodes[f.i], ctx)

\* The frame f on top of the stack gets the value v that its call returned.
returnTurn(g, f, v) ==
    CASE f.fn = "renderNodes" ->
           IF v.err # NoErr THEN Returns(PopFrame(g), <<>>, v.err)
           ELSE SetTop(g, [f EXCEPT !.sb = @ \o v.out, !.i = @ + 1])
      [] f.fn = "renderForNode" ->
           IF v.err # NoErr
           THEN Returns(PopFrame(g), <<>>, <<"error in for loop">> \o v.err)
           ELSE SetTop(g, [f EXCEPT !.sb = @ \o v.out, !.j = @ + 1])
      [] f.fn = "renderIfNode" ->
           IF v.err # NoErr THEN Returns(PopFrame(g), <<>>, v.err)
           ELSE IF v.out # <<>> THEN Returns(PopFrame(g), v.out, NoErr)
           ELSE callBranch(PopFrame(g), f.children, 1, "ELSE_BRANCH")

\* One turn of the second loop of renderForNode, or of the loop over the
\* iterator inside a FOR_BODY, f being the frame: [g, ctx], ctx being r.Context
\* as the turn leaves it.
forTurn(g, f, ctx) ==
    IF f.at = "children"
    THEN IF f.i > Len(f.children)
         THEN [g |-> Returns(PopFrame(g), f.sb, NoErr), ctx |-> ctx]
         ELSE IF f.children[f.i].Type = "FOR_BODY"
         THEN [g |-> SetTop(g, [f EXCEPT !.original = variableLookup(ctx, f.iteratee),
                                         !.at = "items", !.j = 1]),
               ctx |-> ctx]
         ELSE [g |-> SetTop(g, [f EXCEPT !.i = @ + 1]), ctx |-> ctx]
    ELSE IF f.j > Len(f.iterator)
         THEN [g |-> SetTop(g, [f EXCEPT !.at = "children", !.i = @ + 1]),
               ctx |-> forRestore(ctx, f.iteratee, f.original)]
         ELSE [g |-> Push(g, nodesFrame(f.children[f.i].Children, 1)),
               ctx |-> MapSet(ctx, f.iteratee, f.iterator[f.j])]

----------------------------------------------------------------------------
(* The lexer's tokens: lexer.Token{Value string, Type TokenType} *)

Token(type, value) == [Type |-> type, Value |-> value]

\* The keywords.
kwIf     == <<"i", "f">>
kwElif   == <<"e", "l", "i", "f">>
kwElse   == <<"e", "l", "s", "e">>
kwFor    == <<"f", "o", "r">>
kwIn     == <<"i", "n">>
kwEndIf  == <<"e", "n", "d", "i", "f">>
kwEndFor == <<"e", "n", "d", "f", "o", "r">>

keywords == {kwIf, kwElif, kwElse, kwFor, kwIn, kwEndIf, kwEndFor}

\* lexer.Operators: the token type of each operator text.
Operators ==
    (<<"&", "&">> :> "AMPERSAND") @@ (<<"|", "|">> :> "PIPE") @@ (<<">", "=">> :> "GTE") @@ (<<">">> :> "GT")
    @@ (<<"<">> :> "LT") @@ (<<"<", "=">> :> "LTE") @@ (<<"=", "=">> :> "EQ") @@ (<<"!", "=">> :> "NEQ")
    @@ (<<"?", "?">> :> "NULL_COALESCE") @@ (<<"!">> :> "BANG") @@ (<<"(">> :> "LPAREN")
    @@ (<<")">> :> "RPAREN") @@ (<<"[">> :> "OPEN_BRACKET") @@ (<<"]">> :> "CLOSE_BRACKET")

OpenCurly  == Token("OPEN_CURLY", <<"{", "{">>)
CloseCurly == Token("CLOSE_CURLY", <<"}", "}">>)
Keyword(kw)   == Token("KEYWORD", kw)
Identifier(n) == Token("IDENTIFIER", n)
Operator(op)  == Token(Operators[op], op)

\* strings.Trim(s, "'")
RECURSIVE TrimLeft(_), TrimRight(_)
TrimLeft(s)  == IF s # <<>> /\ Head(s) = "'" THEN TrimLeft(Tail(s)) ELSE s
TrimRight(s) == IF s # <<>> /\ s[Len(s)] = "'" THEN TrimRight(SubSeq(s, 1, Len(s) - 1)) ELSE s
Trim(s) == TrimRight(TrimLeft(s))

----------------------------------------------------------------------------
(* The lexer.  rawText is a sequence of bytes: an ASCII byte is its character, *)
(* a byte from 0x80 on is named by its two hexadecimal digits.  A Lexer is     *)
(* [rawText, Tokens, crrPos, mode] with crrPos counting from 0; while Tokenize *)
(* runs it also holds Tokenize's strings.Builder sb and where Tokenize is: at  *)
(* the head of its loop ("loop") or of the loop of a string literal ("string"). *)

\* lexer.New
NewLexer(content) ==
    [rawText |-> content, Tokens |-> <<>>, crrPos |-> 0, mode |-> "TextMode",
     sb |-> <<>>, at |-> "loop"]

\* The UTF-8 encoding of the rune rune(b) for the bytes b from 0x80 on of the
\* model's sources: the rune U+00C3 is the bytes C3 83, U+00A9 the bytes C2 A9.
RuneUtf8 == ("C3" :> <<"C3", "83">>) @@ ("A9" :> <<"C2", "A9">>)

\* What sb.WriteRune(char) and string(char) give for char = rune(b), b a byte of
\* rawText: the byte itself for an ASCII byte, two bytes otherwise.
WriteRune(b) == IF b \in DOMAIN RuneUtf8 THEN RuneUtf8[b] ELSE <<b>>

\* unicode.IsSpace on the characters of the model's sources.
IsSpace(char) == char \in {" ", "\t", "\n", "\r"}

\* The lexer has a byte left: advance and peek return ok.
hasByte(l) == l.crrPos < Len(l.rawText)

\* The byte advance and peek return, and the lexer advance leaves.
byteAt(l) == l.rawText[l.crrPos + 1]
lexerAdvance(l) == [l EXCEPT !.crrPos = @ + 1]

\* peek returns this byte (a failed peek returns 0, which is no character).
peekIs(l, char) == hasByte(l) /\ byteAt(l) = char

isNumber(text) == ParseFloat(text).ok

isString(text) == text # <<>> /\ Head(text) = "'" /\ text[Len(text)] = "'"

\* addToken, as the token list it leaves.
addToken(toks, text) ==
    IF text = <<>> THEN toks
    ELSE IF text \in keywords THEN Append(toks, Token("KEYWORD", text))
    ELSE IF isNumber(text) THEN Append(toks, Token("NUMBER", text))
    ELSE IF isString(text) THEN Append(toks, Token("STRING", Trim(text)))
    ELSE Append(toks, Token("IDENTIFIER", text))

\* textTurn leaving the mode as it is after {{.
textTurn_KeepsMode(l, char) ==
    IF char = "{" /\ peekIs(l, "{")
    THEN [l EXCEPT !.Tokens = (IF l.sb # <<>> THEN Append(@, Token("TEXT", l.sb)) ELSE @)
                              \o <<OpenCurly>>,
                   !.sb = <<>>, !.crrPos = @ + 1]
    ELSE [l EXCEPT !.sb = @ \o WriteRune(char)]

\* One turn of the loop of Tokenize in TextMode, char being the byte advance
\* returned and l the lexer after it.
textTurn(l, char) ==
    IF char = "{" /\ peekIs(l, "{")
    THEN [l EXCEPT !.Tokens = (IF l.sb # <<>> THEN Append(@, Token("TEXT", l.sb)) ELSE @)
                              \o <<OpenCurly>>,
                   !.sb = <<>>, !.crrPos = @ + 1, !.mode = "TagMode"]
    ELSE [l EXCEPT !.sb = @ \o WriteRune(char)]

\* One turn of the loop of Tokenize in TagMode.
tagTurn(l, char) ==
    IF char = "'" THEN [l EXCEPT !.sb = @ \o WriteRune(char), !.at = "string"]
    ELSE IF IsSpace(char) THEN [l EXCEPT !.Tokens = addToken(@, l.sb), !.sb = <<>>]
    ELSE IF char = "}" /\ peekIs(l, "}")
    THEN [l EXCEPT !.Tokens = Append(addToken(@, l.sb), CloseCurly),
                   !.sb = <<>>, !.crrPos = @ + 1, !.mode = "TextMode"]
    ELSE IF hasByte(l) /\ (WriteRune(char) \o WriteRune(byteAt(l))) \in DOMAIN Operators
    THEN [l EXCEPT !.Tokens = Append(addToken(@, l.sb),
                                     Operator(WriteRune(char) \o WriteRune(byteAt(l)))),
                   !.sb = <<>>, !.crrPos = @ + 1]
    ELSE IF WriteRune(char) \in DOMAIN Operators
    THEN [l EXCEPT !.Tokens = Append(addToken(@, l.sb), Operator(WriteRune(char))),
                   !.sb = <<>>]
    ELSE [l EXCEPT !.sb = @ \o WriteRune(char)]

\* The loop of a string literal waiting for the closing quote at the end of the
\* text.
stringTurn_WaitsForQuote(l) ==
    IF ~hasByte(l) THEN l
    ELSE IF byteAt(l) = "'"
    THEN [lexerAdvance(l) EXCEPT
              !.Tokens = Append(@, Token("STRING", Trim(l.sb \o WriteRune(byteAt(l))))),
              !.sb = <<>>, !.at = "loop"]
    ELSE [lexerAdvance(l) EXCEPT !.sb = @ \o WriteRune(byteAt(l))]

\* One turn of the loop of a string literal: at the end of the text it is left
\* with what sb holds; the closing quote makes the STRING token.
stringTurn(l) ==
    IF ~hasByte(l) THEN [l EXCEPT !.at = "loop"]
    ELSE IF byteAt(l) = "'"
    THEN [lexerAdvance(l) EXCEPT
              !.Tokens = Append(@, Token("STRING", Trim(l.sb \o WriteRune(byteAt(l))))),
              !.sb = <<>>, !.at = "loop"]
    ELSE [lexerAdvance(l) EXCEPT !.sb = @ \o WriteRune(byteAt(l))]

\* "Handle any remaining text": the token list Tokenize returns.
remainingText(l) ==
    IF l.sb = <<>> THEN l.Tokens
    ELSE IF l.mode = "TextMode" THEN Append(l.Tokens, Token("TEXT", l.sb))
    ELSE addToken(l.Tokens, l.sb)

----------------------------------------------------------------------------
(* The parser.  A Parser is [tokens, crrPos]; crrPos counts from 0 as in the  *)
(* source, so the current token is tokens[crrPos + 1].  A parsing function    *)
(* returns [val, err, p, end]: its value and error, the parser as the call    *)
(* leaves it, and how the call ended: "return", "panic", or "loop" when it    *)
(* reached a loop that no longer changes the position.                        *)

NewParser(toks) == [tokens |-> toks, crrPos |-> 0]

PRes(val, err, p) == [val |-> val, err |-> err, p |-> p, end |-> "return"]

\* panic("Unknown KEYWORD")
Panicked(p) == [val |-> <<>>, err |-> NoErr, p |-> p, end |-> "panic"]

\* The loop of parseVar at the end of the tokens: every turn appends `again`
\* (one node or none) to expressionNodes and leaves crrPos where it is.
Looping(p, expressionNodes, again) ==
    [val |-> expressionNodes, err |-> NoErr, p |-> p, end |-> "loop", again |-> again]

\* Node{}
ZeroNode == Node("TEXT_NODE", NilStr, <<>>)

isAtEnd(p) == p.crrPos >= Len(p.tokens)

peek(p) == IF isAtEnd(p) THEN Token("EOF", <<"E", "O", "F">>) ELSE p.tokens[p.crrPos + 1]

check(p, t) == ~isAtEnd(p) /\ peek(p).Type = t

checkNext(p, t) == p.crrPos + 1 < Len(p.tokens) /\ p.tokens[p.crrPos + 2].Type = t

previous(p) == p.tokens[p.crrPos]

\* advance, as the parser it leaves; its result is previous() of that parser.
advance(p) == IF ~isAtEnd(p) THEN [p EXCEPT !.crrPos = @ + 1] ELSE p

\* match(t), as the parser it leaves; its result is check(p, t).
match(p, t) == IF check(p, t) THEN advance(p) ELSE p

isKeywordTag(p, kw) ==
    check(p, "OPEN_CURLY") /\ checkNext(p, "KEYWORD") /\ p.tokens[p.crrPos + 2].Value = kw

isElifKeyword(p)   == isKeywordTag(p, kwElif)
isElseKeyword(p)   == isKeywordTag(p, kwElse)
isEndIfKeyword(p)  == isKeywordTag(p, kwEndIf)
isEndForKeyword(p) == isKeywordTag(p, kwEndFor)

isBlockEnd(p) ==
    isElseKeyword(p) \/ isElifKeyword(p) \/ isEndIfKeyword(p) \/ isEndForKeyword(p)

\* [err, p]
expectCloseCurly(p) ==
    IF check(p, "CLOSE_CURLY") THEN [err |-> NoErr, p |-> advance(p)]
    ELSE [err |-> Errorf("expected '}}'"), p |-> p]

\* expectAndConsumeEndIf taking any closer for endif.
expectAndConsumeEndIf_AnyCloser(p) ==
    IF ~isBlockEnd(p)
    THEN [err |-> Errorf("expected '{{ endif }}' to close if statement"), p |-> p]
    ELSE expectCloseCurly(advance(advance(p)))

\* [err, p]
expectAndConsumeEndIf(p) ==
    IF ~isEndIfKeyword(p)
    THEN [err |-> Errorf("expected '{{ endif }}' to close if statement"), p |-> p]
    ELSE expectCloseCurly(advance(advance(p)))

\* [err, p]
expectAndConsumeEndFor(p) ==
    IF ~isEndForKeyword(p)
    THEN [err |-> Errorf("expected '{{ endfor }}' to close for statement"), p |-> p]
    ELSE expectCloseCurly(advance(advance(p)))

\* [err, p]: a keyword other than in is an error, a token that is no keyword
\* is left where it is.
expectInKeyword(p) ==
    IF check(p, "KEYWORD") /\ previous(advance(p)).Value # kwIn
    THEN [err |-> Errorf("expected 'in'"), p |-> advance(p)]
    ELSE [err |-> NoErr, p |-> match(p, "KEYWORD")]

\* The node parseVar appends for an operator token: none for an operator that
\* the switch has no case for.
operatorNode(operator, currToken) ==
    CASE operator = "AMPERSAND" -> <<Node("OP_AND", Ptr(currToken.Value), <<>>)>>
      [] operator = "PIPE" -> <<Node("OP_OR", Ptr(currToken.Value), <<>>)>>
      [] operator = "EQ"   -> <<Node("OP_EQUALS", Ptr(currToken.Value), <<>>)>>
      [] operator = "NEQ"  -> <<Node("OP_NOT_EQUALS", Ptr(currToken.Value), <<>>)>>
      [] operator = "GT"   -> <<Node("OP_GT", Ptr(currToken.Value), <<>>)>>
      [] operator = "LT"   -> <<Node("OP_LT", Ptr(currToken.Value), <<>>)>>
      [] operator = "GTE"  -> <<Node("OP_GTE", Ptr(currToken.Value), <<>>)>>
      [] operator = "LTE"  -> <<Node("OP_LTE", Ptr(currToken.Value), <<>>)>>
      [] OTHER -> <<>>

\* The node parseVar appends for a token that is no operator: none for a token
\* that is neither a string, a number nor an identifier.
operandNode(currToken) ==
    CASE currToken.Type = "STRING" ->
           <<Node("STRING_LITERAL_NODE", Ptr(Trim(currToken.Value)), <<>>)>>
      [] currToken.Type = "NUMBER" ->
           <<Node("NUMBER_LITERAL_NODE", Ptr(currToken.Value), <<>>)>>
      [] currToken.Type = "IDENTIFIER" ->
           <<Node("VARIABLE_NODE", Ptr(currToken.Value), <<>>)>>
      [] OTHER -> <<>>

\* The loop "for !p.check(lexer.CLOSE_CURLY)" of parseVar.  At the end of the
\* tokens check is false, peek is the EOF token, advance does not move and
\* previous is the last token again: the loop does not end.
RECURSIVE parseVarLoop(_, _)
parseVarLoop(p, expressionNodes) ==
    IF check(p, "CLOSE_CURLY")
    THEN PRes(Node("EXPRESSION_NODE", NilStr, expressionNodes), NoErr, advance(p))
    ELSE IF isAtEnd(p) THEN Looping(p, expressionNodes, operandNode(previous(p)))
    ELSE IF peek(p).Value \in DOMAIN Operators
    THEN parseVarLoop(advance(p),
                      expressionNodes \o operatorNode(Operators[peek(p).Value], peek(p)))
    ELSE parseVarLoop(advance(p), expressionNodes \o operandNode(previous(advance(p))))

parseVar(p) ==
    IF check(p, "CLOSE_CURLY")
    THEN PRes(Node("VARIABLE_NODE", Ptr(previous(p).Value), <<>>), NoErr, advance(p))
    ELSE parseVarLoop(p, <<Node("VARIABLE_NODE", Ptr(previous(p).Value), <<>>)>>)

RECURSIVE parseIf(_), ifThen(_, _), ifElifs(_, _, _, _), ifElif(_, _, _, _),
          ifElse(_, _, _, _), ifEnd(_, _, _, _), parseFor(_), forBlock(_, _, _),
          parseElse(_), elseBlock(_), parseElif(_), elifBlock(_, _),
          parseBlock(_), parseBlockFrom(_, _), blockAppend(_, _, _)

\* A call that did not return, or returned an error, as its caller passes it on:
\* the error wrapped in the caller's message when it has one.
PassOn(r, wrap) ==
    IF r.end # "return" THEN r ELSE PRes(ZeroNode, wrap \o r.err, r.p)

NewIfNode(condition, thenNode, elifNode, elseNode) ==
    Node("IF_NODE", condition,
         <<Node("THEN_BRANCH", NilStr, thenNode.Children)>>
         \o (IF Len(elifNode.Children) > 0 THEN <<elifNode>> ELSE <<>>)
         \o (IF Len(elseNode.Children) > 0
             THEN <<Node("ELSE_BRANCH", NilStr, elseNode.Children)>> ELSE <<>>))

NewForNode(iterator, iteratee, body) == Node("FOR_NODE", NilStr, <<iteratee, iterator, body>>)

\* The end of parseIf, else being what parseElse returned, or the zero Node
\* when there is no else.
ifEnd(condition, thenBlock, elifNodes, else) ==
    IF else.end # "return" \/ else.err # NoErr
    THEN PassOn(else, <<"error parsing else block">>)
    ELSE IF expectAndConsumeEndIf(else.p).err # NoErr
    THEN PRes(ZeroNode, expectAndConsumeEndIf(else.p).err, expectAndConsumeEndIf(else.p).p)
    ELSE PRes(NewIfNode(Ptr(condition), Node("THEN_BRANCH", NilStr, thenBlock),
                        Node("ELIF_BRANCH", NilStr, elifNodes), else.val),
              NoErr, expectAndConsumeEndIf(else.p).p)

ifElse(condition, thenBlock, elifNodes, p) ==
    IF isElseKeyword(p) THEN ifEnd(condition, thenBlock, elifNodes, parseElse(p))
    ELSE ifEnd(condition, thenBlock, elifNodes, PRes(ZeroNode, NoErr, p))

\* One turn of the loop "for p.isElifKeyword()", r being what parseElif returned.
ifElif(condition, thenBlock, elifNodes, r) ==
    IF r.end # "return" \/ r.err # NoErr THEN PassOn(r, <<"error parsing elif block">>)
    ELSE ifElifs(condition, thenBlock, Append(elifNodes, r.val), r.p)

ifElifs(condition, thenBlock, elifNodes, p) ==
    IF isElifKeyword(p) THEN ifElif(condition, thenBlock, elifNodes, parseElif(p))
    ELSE ifElse(condition, thenBlock, elifNodes, p)

\* parseIf after its header, r being what parseBlock returned for the then block.
ifThen(condition, r) ==
    IF r.end # "return" \/ r.err # NoErr THEN PassOn(r, <<"error parsing then block">>)
    ELSE ifElifs(condition, r.val, <<>>, r.p)

\* parseIf taking the condition when there is one, and the empty name otherwise.
parseIf_OptionalCondition(p) ==
    IF expectCloseCurly(match(p, "IDENTIFIER")).err # NoErr
    THEN PRes(ZeroNode, expectCloseCurly(match(p, "IDENTIFIER")).err, match(p, "IDENTIFIER"))
    ELSE ifThen(IF check(p, "IDENTIFIER") THEN peek(p).Value ELSE <<>>,
                parseBlock(expectCloseCurly(match(p, "IDENTIFIER")).p))

parseIf(p) ==
    IF ~check(p, "IDENTIFIER") THEN PRes(ZeroNode, Errorf("expected condition after 'if'"), p)
    ELSE IF expectCloseCurly(advance(p)).err # NoErr
    THEN PRes(ZeroNode, expectCloseCurly(advance(p)).err, advance(p))
    ELSE ifThen(previous(advance(p)).Value, parseBlock(expectCloseCurly(advance(p)).p))

\* parseFor after its header, r being what parseBlock returned for the body.
forBlock(iteratee, iterator, r) ==
    IF r.end # "return" \/ r.err # NoErr THEN PassOn(r, <<"error parsing for body">>)
    ELSE IF expectAndConsumeEndFor(r.p).err # NoErr
    THEN PRes(ZeroNode, expectAndConsumeEndFor(r.p).err, expectAndConsumeEndFor(r.p).p)
    ELSE PRes(NewForNode(Node("ITERATOR_ITEM", Ptr(iterator), <<>>),
                         Node("ITERATEE_ITEM", Ptr(iteratee), <<>>),
                         Node("FOR_BODY", NilStr, r.val)),
              NoErr, expectAndConsumeEndFor(r.p).p)

parseFor(p) ==
    IF ~check(p, "IDENTIFIER") THEN PRes(ZeroNode, Errorf("expected iteratee after 'for'"), p)
    ELSE
    LET in == expectInKeyword(advance(p))
    IN  IF in.err # NoErr THEN PRes(ZeroNode, in.err, in.p)
        ELSE IF ~check(in.p, "IDENTIFIER")
        THEN PRes(ZeroNode, Errorf("expected iterator after 'in'"), in.p)
        ELSE IF expectCloseCurly(advance(in.p)).err # NoErr
        THEN PRes(ZeroNode, expectCloseCurly(advance(in.p)).err, advance(in.p))
        ELSE forBlock(previous(advance(p)).Value, previous(advance(in.p)).Value,
                      parseBlock(expectCloseCurly(advance(in.p)).p))

\* parseElse after "{{ else }}", r being what parseBlock returned.
elseBlock(r) ==
    IF r.end # "return" \/ r.err # NoErr THEN PassOn(r, <<>>)
    ELSE PRes(Node("ELSE_BRANCH", NilStr, r.val), NoErr, r.p)

parseElse(p) ==
    IF expectCloseCurly(advance(advance(p))).err # NoErr
    THEN PRes(ZeroNode, expectCloseCurly(advance(advance(p))).err, advance(advance(p)))
    ELSE elseBlock(parseBlock(expectCloseCurly(advance(advance(p))).p))

\* parseElif after its header, r being what parseBlock returned.
elifBlock(condition, r) ==
    IF r.end # "return" \/ r.err # NoErr THEN PassOn(r, <<"error parsing elif block">>)
    ELSE PRes(Node("ELIF_ITEM", Ptr(condition), r.val), NoErr, r.p)

parseElif(p) ==
    LET header == advance(advance(p))
    IN  IF ~check(header, "IDENTIFIER")
        THEN PRes(ZeroNode, Errorf("expected condition after 'if'"), header)
        ELSE IF expectCloseCurly(advance(header)).err # NoErr
        THEN PRes(ZeroNode, expectCloseCurly(advance(header)).err, advance(header))
        ELSE elifBlock(previous(advance(header)).Value,
                       parseBlock(expectCloseCurly(advance(header)).p))

\* One nested if or for of parseBlock, r being what parseIf or parseFor returned.
blockAppend(nodes, r, wrap) ==
    IF r.end # "return" \/ r.err # NoErr THEN PassOn(r, wrap)
    ELSE parseBlockFrom(r.p, Append(nodes, r.val))

\* The loop of parseBlock, nodes holding the nodes parsed so far.
parseBlockFrom(p, nodes) ==
    IF isAtEnd(p) \/ isBlockEnd(p) THEN PRes(nodes, NoErr, p)
    ELSE IF check(p, "TEXT")
    THEN parseBlockFrom(advance(p), Append(nodes, Node("TEXT_NODE", Ptr(peek(p).Value), <<>>)))
    ELSE IF check(p, "OPEN_CURLY")
    THEN LET tag == advance(p)
         IN  IF check(tag, "KEYWORD")
             THEN CASE peek(tag).Value = kwIf ->
                         blockAppend(nodes, parseIf(advance(tag)),
                                     <<"error parsing nested if statement">>)
                    [] peek(tag).Value = kwFor ->
                         blockAppend(nodes, parseFor(advance(tag)),
                                     <<"error parsing nested for statement">>)
                    [] OTHER -> Panicked(advance(tag))
             ELSE IF check(tag, "IDENTIFIER")
             THEN parseBlockFrom(advance(advance(tag)),
                                 Append(nodes, Node("VARIABLE_NODE", Ptr(peek(tag).Value), <<>>)))
             ELSE PRes(<<>>, Errorf("unexpected token after '{{'"), tag)
    ELSE PRes(<<>>, Errorf("unexpected token"), p)

parseBlock(p) == parseBlockFrom(p, <<>>)

RECURSIVE ParseFrom(_, _)

\* One if, for or variable tag of Parse, r being what its parsing returned.
parseAppend(nodes, r, wrap) ==
    IF r.end # "return" THEN r
    ELSE IF r.err # NoErr THEN PRes(<<>>, wrap \o r.err, r.p)
    ELSE ParseFrom(r.p, Append(nodes, r.val))

\* The loop of Parse, nodes holding the nodes parsed so far.
ParseFrom(p, nodes) ==
    IF isAtEnd(p) THEN PRes(nodes, NoErr, p)
    ELSE IF isBlockEnd(p)
    THEN PRes(<<>>, Errorf("malformed tokens. 'else' or 'endif' cannot be used without 'if'"), p)
    ELSE IF check(p, "TEXT")
    THEN ParseFrom(advance(p), Append(nodes, Node("TEXT_NODE", Ptr(peek(p).Value), <<>>)))
    ELSE IF check(p, "OPEN_CURLY")
    THEN LET tag == advance(p)
         IN  IF check(tag, "KEYWORD")
             THEN CASE peek(tag).Value = kwIf ->
                         parseAppend(nodes, parseIf(advance(tag)),
                                     <<"error parsing if statement">>)
                    [] peek(tag).Value = kwFor ->
                         parseAppend(nodes, parseFor(advance(tag)),
                                     <<"error parsing for statement">>)
                    [] OTHER -> Panicked(advance(tag))
             ELSE IF check(tag, "IDENTIFIER")
             THEN parseAppend(nodes, parseVar(advance(tag)),
                              <<"error parsing variable statement">>)
             ELSE PRes(<<>>, Errorf("unexpected token after '{{'"), tag)
    ELSE PRes(<<>>, Errorf("unrecognized token, they should start with -> '{{'"), p)

\* Parser.Parse
Parse(p) == ParseFrom(p, <<>>)

----------------------------------------------------------------------------
(* The inputs of the renderer: ASTs and contexts *)

MaxElif  == 2   \* ELIF_ITEMs in an ELIF_BRANCH
MaxSlice == 2   \* elements of the slice a for loop ranges over
MaxNest  == 2   \* for loops inside one another

\* All sequences over S of length at most n.
RECURSIVE SeqsUpTo(_, _)
SeqsUpTo(S, n) ==
    IF n = 0 THEN {<<>>}
    ELSE LET shorter == SeqsUpTo(S, n - 1)
         IN  shorter \cup {Append(q, e) : q \in {q \in shorter : Len(q) = n - 1}, e \in S}

TextNode(s)  == Node("TEXT_NODE", Ptr(s), <<>>)
VarNode(n)   == Node("VARIABLE_NODE", Ptr(n), <<>>)
StrLit(s)    == Node("STRING_LITERAL_NODE", Ptr(s), <<>>)
NumLit(s)    == Node("NUMBER_LITERAL_NODE", Ptr(s), <<>>)
OpNode(t)    == Node(t, NilStr, <<>>)
ExprNode(cs) == Node("EXPRESSION_NODE", NilStr, cs)
ElifItem(cond, body) == Node("ELIF_ITEM", NilStr, <<cond>> \o body)

\* An IF_NODE as the renderer reads it: the condition, the THEN_BRANCH, an
\* ELIF_BRANCH when there are elifs, an ELSE_BRANCH when there is an else (else is
\* <<>> or <<body>>).
IfNode(cond, then, elifs, else) ==
    Node("IF_NODE", NilStr,
         <<cond, Node("THEN_BRANCH", NilStr, then)>>
         \o (IF elifs = <<>> THEN <<>> ELSE <<Node("ELIF_BRANCH", NilStr, elifs)>>)
         \o (IF else = <<>> THEN <<>> ELSE <<Node("ELSE_BRANCH", NilStr, else[1])>>))

ForNode(iteratee, iterator, body) ==
    Node("FOR_NODE", NilStr,
         <<Node("ITERATEE_ITEM", Ptr(iteratee), <<>>), Node("ITERATOR_ITEM", Ptr(iterator), <<>>),
           Node("FOR_BODY", NilStr, body)>>)

\* The names of the model's templates.
nA  == <<"a">>
nB  == <<"b">>
nX  == <<"x">>
nXs == <<"x", "s">>

IfConds == {VarNode(nA), ExprNode(<<VarNode(nX)>>)}

ElifItems ==
    {ElifItem(c, b) : c \in {VarNode(nB), ExprNode(<<VarNode(nX)>>)},
                      b \in {<<>>, <<TextNode(<<"B">>)>>, <<VarNode(nX)>>}}

\* Top-level if nodes, with every shape of elif chain and else.
IfNodes ==
    {IfNode(c, t, e, l) : c \in IfConds, t \in {<<>>, <<TextNode(<<"T">>)>>},
                          e \in SeqsUpTo(ElifItems, MaxElif),
                          l \in {<<>>, << <<TextNode(<<"E">>)>> >>}}

\* The bodies of an innermost loop.
LoopLeafBodies ==
    {<<>>, <<TextNode(<<"T">>)>>, <<VarNode(nX)>>, <<VarNode(nA)>>,
     <<TextNode(<<"T">>), VarNode(nA)>>,
     <<IfNode(VarNode(nX), <<TextNode(<<"T">>)>>, <<>>, <<>>)>>,
     <<IfNode(ExprNode(<<VarNode(nX)>>), <<VarNode(nA)>>, <<>>, << <<TextNode(<<"E">>)>> >>)>>}

RECURSIVE ForNodes(_)
ForNodes(depth) ==
    IF depth <= 1 THEN {ForNode(nX, nXs, b) : b \in LoopLeafBodies}
    ELSE LET inner == ForNodes(depth - 1)
         IN  {ForNode(nX, nXs, b) :
                 b \in LoopLeafBodies \cup {<<f>> : f \in inner}
                                      \cup {<<f, VarNode(nX)>> : f \in inner}}

\* A node between an optional text before it and an optional variable after it.
Around(nodes) ==
    {pre \o <<n>> \o post : n \in nodes, pre \in {<<>>, <<TextNode(<<"P">>)>>},
                            post \in {<<>>, <<VarNode(nX)>>}}

\* A Go map with keys among the given names: [name -> set of its values], a name
\* that may be absent having "absent" among them.
Absent == [t |-> "absent"]
Maps(choices) ==
    {[k \in {n \in DOMAIN f : f[n] # Absent} |-> f[k]] :
        f \in [DOMAIN choices -> UNION {choices[n] : n \in DOMAIN choices}] \cap
              {g \in [DOMAIN choices -> UNION {choices[n] : n \in DOMAIN choices}] :
                    \A n \in DOMAIN choices : g[n] \in choices[n]}}

SliceItems == {BoolV(TRUE), StrV(<<"p">>)}

IfContexts ==
    Maps([n \in {nA, nB, nX} |->
            IF n = nX THEN {Absent, BoolV(FALSE), StrV(<<"p">>), StrV(<<>>)}
            ELSE {Absent, BoolV(TRUE), BoolV(FALSE)}])

ForContexts ==
    Maps([n \in {nA, nX, nXs} |->
            CASE n = nA  -> {Absent, BoolV(TRUE)}
              [] n = nX  -> {Absent, BoolV(FALSE)}
              [] n = nXs -> {Absent, StrV(<<"p">>)}
                            \cup {SliceV(l) : l \in SeqsUpTo(SliceItems, MaxSlice)}])

\* If nodes whose conditions are bound to values of every type: a bare variable
\* or an expression as the condition of the if and of its elif.
TypedIfNodes ==
    {IfNode(c, <<TextNode(<<"T">>)>>, e, << <<TextNode(<<"E">>)>> >>) :
        c \in {VarNode(nA), ExprNode(<<VarNode(nA)>>)},
        e \in {<<>>, <<ElifItem(VarNode(nB), <<TextNode(<<"B">>)>>)>>,
                     <<ElifItem(ExprNode(<<VarNode(nB)>>), <<TextNode(<<"B">>)>>)>>}}

TypedValues ==
    {NilV, BoolV(TRUE), BoolV(FALSE), IntV(0), IntV(3), StrV(<<>>), StrV(<<"p">>),
     SliceV(<<>>), SliceV(<<BoolV(FALSE)>>), MapV(<<>>), MapV([k \in {nA} |-> NilV])}

\* Templates that read the name a: as a variable tag, after a text, and as an
\* operand of an expression, alone and after an operand that decides the result.
NameTemplates ==
    {<<VarNode(nA)>>, <<TextNode(<<"P">>), VarNode(nA)>>,
     <<ExprNode(<<VarNode(nA)>>)>>,
     <<ExprNode(<<VarNode(nB), OpNode("OP_OR"), VarNode(nA)>>)>>,
     <<TextNode(<<"P">>), ExprNode(<<VarNode(nA), OpNode("OP_AND"), VarNode(nB)>>)>>}

NameContexts ==
    Maps([n \in {nA, nB} |->
            IF n = nA THEN {Absent, NilV, BoolV(TRUE), StrV(<<"p">>)}
            ELSE {Absent, BoolV(TRUE), BoolV(FALSE)}])

\* For nodes, alone and after a text, with iterators of every type.
IteratorTemplates ==
    {<<ForNode(nX, nXs, <<VarNode(nX)>>)>>,
     <<TextNode(<<"P">>), ForNode(nX, nXs, <<TextNode(<<"T">>)>>)>>}

IteratorContexts ==
    Maps([n \in {nX, nXs} |->
            IF n = nX THEN {Absent, BoolV(FALSE)}
            ELSE {Absent, NilV, BoolV(TRUE), IntV(3), StrV(<<"p">>), MapV(<<>>),
                  MapV([k \in {nA} |-> StrV(<<"p">>)]), SliceV(<<StrV(<<"p">>)>>)}])

RenderInputs ==
    {[ast |-> t, ctx |-> c] : t \in Around(IfNodes), c \in IfContexts}
    \cup {[ast |-> t, ctx |-> c] : t \in Around(ForNodes(MaxNest)), c \in ForContexts}
    \cup {[ast |-> <<t>>, ctx |-> c] : t \in TypedIfNodes, c \in [{nA, nB} -> TypedValues]}
    \cup {[ast |-> t, ctx |-> c] : t \in NameTemplates, c \in NameContexts}
    \cup {[ast |-> t, ctx |-> c] : t \in IteratorTemplates, c \in IteratorContexts}

\* ---- templates and contexts of two renders at the same time ----

ConcurrentTemplates ==
    {<<TextNode(<<"P">>), ForNode(nX, nXs, <<VarNode(nX)>>), VarNode(nX)>>,
     <<ForNode(nX, nXs,
               <<IfNode(ExprNode(<<VarNode(nX)>>), <<VarNode(nA)>>, <<>>,
                        << <<TextNode(<<"E">>)>> >>)>>)>>,
     <<IfNode(VarNode(nA), <<TextNode(<<"T">>)>>,
              <<ElifItem(VarNode(nB), <<>>),
                ElifItem(ExprNode(<<VarNode(nX)>>), <<TextNode(<<"B">>)>>)>>,
              << <<VarNode(nX)>> >>)>>,
     <<IfNode(VarNode(nA), <<ForNode(nX, nXs, <<VarNode(nX)>>)>>, <<>>, <<>>), VarNode(nX)>>,
     <<ForNode(nX, nXs, <<ForNode(nX, nXs, <<VarNode(nX)>>), VarNode(nX)>>)>>}

ConcurrentContexts ==
    Maps([n \in {nA, nB, nX, nXs} |->
            CASE n = nA  -> {BoolV(TRUE), BoolV(FALSE)}
              [] n = nB  -> {BoolV(TRUE)}
              [] n = nX  -> {Absent, BoolV(FALSE)}
              [] n = nXs -> {StrV(<<"p">>), SliceV(<<>>),
                             SliceV(<<BoolV(TRUE), StrV(<<"p">>)>>)}])

ConcurrentInputs ==
    {[ast |-> t, ctxs |-> <<c1, c2>>] :
        t \in ConcurrentTemplates, c1 \in ConcurrentContexts, c2 \in ConcurrentContexts}

\* ---- expressions handed to evaluateExpression ----

MaxOperands == 3   \* operands of a parenthesis-free expression

nC == <<"c">>
nD == <<"d">>
nE == <<"e">>

\* The name of the i-th operand of an expression.
OperandNames == <<nA, nB, nC, nD, nE>>

\* Prefix and infix operators of the parenthesis-free expressions.
PrefixOps == {<<>>, <<OpNode("OP_BANG")>>}
InfixOps  == {"OP_AND", "OP_OR", "OP_EQUALS", "OP_LT"}

\* The children of the expression with the given prefixes (one per operand) and
\* infix operators (one between two operands): operand i is the variable
\* OperandNames[i].
RECURSIVE FlatChildren(_, _, _)
FlatChildren(prefixes, infixes, i) ==
    IF i > Len(prefixes) THEN <<>>
    ELSE (IF i > 1 THEN <<OpNode(infixes[i - 1])>> ELSE <<>>)
         \o prefixes[i] \o <<VarNode(OperandNames[i])>>
         \o FlatChildren(prefixes, infixes, i + 1)

\* No operand of && or || holds two comparisons: no two comparison operators
\* are next to each other.
OneComparison(infixes) ==
    \A i \in 1..(Len(infixes) - 1) :
        ~(infixes[i] \in ComparisonOps /\ infixes[i + 1] \in ComparisonOps)

FlatExprs ==
    UNION {{ExprNode(FlatChildren(p, o, 1)) :
                p \in [1..n -> PrefixOps],
                o \in {o \in [1..(n - 1) -> InfixOps] : OneComparison(o)}} :
           n \in 1..MaxOperands}

\* !!a and a && !!b
DoubleBangExprs ==
    {ExprNode(<<OpNode("OP_BANG"), OpNode("OP_BANG"), VarNode(nA)>>),
     ExprNode(<<VarNode(nA), OpNode("OP_AND"), OpNode("OP_BANG"), OpNode("OP_BANG"),
                VarNode(nB)>>),
     ExprNode(<<OpNode("OP_BANG"), OpNode("OP_BANG"), VarNode(nA), OpNode("OP_OR"),
                VarNode(nB)>>)}

\* a op b for the two selecting operators and the null coalescing operator, b a
\* variable or a literal.
PairOps == {"OP_AND", "OP_OR", "OP_NULL_COALESCE"}
PairExprs ==
    {ExprNode(<<l, OpNode(o), r>>) :
        l \in {VarNode(nA)}, o \in PairOps, r \in {VarNode(nB), StrLit(<<"d">>), NumLit(<<"0">>)}}

\* (a || b) && c,  a && (b || c),  !(a || b),  ((a || b) && c) || d
GroupExprs ==
    LET aOrB == ExprNode(<<VarNode(nA), OpNode("OP_OR"), VarNode(nB)>>)
        bOrC == ExprNode(<<VarNode(nB), OpNode("OP_OR"), VarNode(nC)>>)
    IN  {ExprNode(<<aOrB, OpNode("OP_AND"), VarNode(nC)>>),
         ExprNode(<<VarNode(nA), OpNode("OP_AND"), bOrC>>),
         ExprNode(<<OpNode("OP_BANG"), aOrB>>),
         ExprNode(<<ExprNode(<<aOrB, OpNode("OP_AND"), VarNode(nC)>>), OpNode("OP_OR"),
                    VarNode(nD)>>)}

\* The values of the operands.
FlatValues == {BoolV(TRUE), BoolV(FALSE), StrV(<<"p">>)}
PairValues ==
    {NilV, BoolV(TRUE), BoolV(FALSE), IntV(0), IntV(3), FloatV(0), StrV(<<>>), StrV(<<"p">>),
     SliceV(<<>>), SliceV(<<BoolV(FALSE)>>), MapV(<<>>), MapV([k \in {nA} |-> NilV])}

\* The names an expression reads, at any depth.
RECURSIVE NamesOf(_)
NamesOf(node) ==
    IF node.Type = "VARIABLE_NODE" THEN {Deref(node.Value)}
    ELSE UNION {NamesOf(node.Children[i]) : i \in 1..Len(node.Children)}

\* Expressions with a ! that is not before an operand:  a !,  a && b !,
\* a ! && b,  a && !,  !,  a ! b
BangExprs ==
    {ExprNode(<<VarNode(nA), OpNode("OP_BANG")>>),
     ExprNode(<<VarNode(nA), OpNode("OP_AND"), VarNode(nB), OpNode("OP_BANG")>>),
     ExprNode(<<VarNode(nA), OpNode("OP_BANG"), OpNode("OP_AND"), VarNode(nB)>>),
     ExprNode(<<VarNode(nA), OpNode("OP_AND"), OpNode("OP_BANG")>>),
     ExprNode(<<OpNode("OP_BANG")>>),
     ExprNode(<<VarNode(nA), OpNode("OP_BANG"), VarNode(nB)>>)}

\* Expressions over names that may be missing from the context:  d || e,
\* d && e,  d || e && c,  d == c || e,  d || (e && c),  (d || e) && c
MissingExprs ==
    {ExprNode(<<VarNode(nD), OpNode("OP_OR"), VarNode(nE)>>),
     ExprNode(<<VarNode(nD), OpNode("OP_AND"), VarNode(nE)>>),
     ExprNode(<<VarNode(nD), OpNode("OP_OR"), VarNode(nE), OpNode("OP_AND"), VarNode(nC)>>),
     ExprNode(<<VarNode(nD), OpNode("OP_EQUALS"), VarNode(nC), OpNode("OP_OR"), VarNode(nE)>>),
     ExprNode(<<VarNode(nD), OpNode("OP_OR"),
                ExprNode(<<VarNode(nE), OpNode("OP_AND"), VarNode(nC)>>)>>),
     ExprNode(<<ExprNode(<<VarNode(nD), OpNode("OP_OR"), VarNode(nE)>>), OpNode("OP_AND"),
                VarNode(nC)>>)}

\* Expressions that are not operand, operator, operand, ...:  the empty
\* expression,  a b,  a &&,  && a,  a && || b,  a b && c,  a b &&,  && a b
MalformedExprs ==
    {ExprNode(<<>>),
     ExprNode(<<VarNode(nA), VarNode(nB)>>),
     ExprNode(<<VarNode(nA), OpNode("OP_AND")>>),
     ExprNode(<<OpNode("OP_AND"), VarNode(nA)>>),
     ExprNode(<<VarNode(nA), OpNode("OP_AND"), OpNode("OP_OR"), VarNode(nB)>>),
     ExprNode(<<VarNode(nA), VarNode(nB), OpNode("OP_AND"), VarNode(nC)>>),
     ExprNode(<<VarNode(nA), VarNode(nB), OpNode("OP_AND")>>),
     ExprNode(<<OpNode("OP_AND"), VarNode(nA), VarNode(nB)>>)}

\* Chains of operators of one level of precedence:  a o b o c  and
\* a o b o c o d,  the operators all comparisons, all && or all ||.
ChainLevels == {{"OP_EQUALS", "OP_LT"}, {"OP_AND"}, {"OP_OR"}}
ChainExprs ==
    UNION {{ExprNode(FlatChildren([i \in 1..n |-> <<>>], o, 1)) :
                o \in UNION {[1..(n - 1) -> level] : level \in ChainLevels}} :
           n \in 3..(MaxOperands + 1)}

MissingContexts == Maps([n \in {nC, nD, nE} |-> {Absent, BoolV(TRUE), BoolV(FALSE)}])

EvalInputs ==
    {[expr |-> e, ctx |-> c] : e \in ChainExprs,
                               c \in [{nA, nB, nC, nD, nE} -> FlatValues]} \cup
    {[expr |-> e, ctx |-> c] : e \in MissingExprs, c \in MissingContexts} \cup
    {[expr |-> e, ctx |-> c] : e \in FlatExprs \cup DoubleBangExprs \cup GroupExprs \cup BangExprs
                                    \cup MalformedExprs,
                               c \in [{nA, nB, nC, nD} -> FlatValues]}
    \cup {[expr |-> e, ctx |-> c] : e \in PairExprs, c \in [{nA, nB} -> PairValues]}


\* ---- token lists handed to Parse, as the lexer makes them ----

MaxTags == 4   \* text runs and tags of a template

\* {{ body }}
Tag(body) == <<OpenCurly>> \o body \o <<CloseCurly>>

\* A text run, a variable tag, the tags that open, continue and close a block,
\* and a tag that begins with the keyword in.
BlockSegments ==
    {<<Token("TEXT", <<"t">>)>>,
     Tag(<<Identifier(nA)>>),
     Tag(<<Keyword(kwIf), Identifier(nA)>>),
     Tag(<<Keyword(kwElif), Identifier(nB)>>),
     Tag(<<Keyword(kwElse)>>),
     Tag(<<Keyword(kwEndIf)>>),
     Tag(<<Keyword(kwFor), Identifier(nX), Keyword(kwIn), Identifier(nXs)>>),
     Tag(<<Keyword(kwEndFor)>>),
     Tag(<<Keyword(kwIn)>>)}

RECURSIVE Flatten(_)
Flatten(segments) ==
    IF segments = <<>> THEN <<>> ELSE Head(segments) \o Flatten(Tail(segments))

\* Tags holding a parenthesised group:  a && (b || c),  (a || b) && c,
\* a && (b || (c && d)),  (a)
GroupBodies ==
    {<<Identifier(nA), Operator(<<"&", "&">>), Operator(<<"(">>), Identifier(nB), Operator(<<"|", "|">>),
       Identifier(nC), Operator(<<")">>)>>,
     <<Operator(<<"(">>), Identifier(nA), Operator(<<"|", "|">>), Identifier(nB), Operator(<<")">>),
       Operator(<<"&", "&">>), Identifier(nC)>>,
     <<Identifier(nA), Operator(<<"&", "&">>), Operator(<<"(">>), Identifier(nB), Operator(<<"|", "|">>),
       Operator(<<"(">>), Identifier(nC), Operator(<<"&", "&">>), Identifier(nD), Operator(<<")">>),
       Operator(<<")">>)>>,
     <<Operator(<<"(">>), Identifier(nA), Operator(<<")">>)>>}

\* Other expression tags:  a && b,  a ?? 'd',  !a,  a == 'p',  a > 5
ExprBodies ==
    {<<Identifier(nA), Operator(<<"&", "&">>), Identifier(nB)>>,
     <<Identifier(nA), Operator(<<"?", "?">>), Token("STRING", <<"d">>)>>,
     <<Operator(<<"!">>), Identifier(nA)>>,
     <<Identifier(nA), Operator(<<"=", "=">>), Token("STRING", <<"p">>)>>,
     <<Identifier(nA), Operator(<<">">>), Token("NUMBER", <<"5">>)>>}

\* The tokens of a source that ends inside a tag:  {{ name,  {{ a && b,  {{ a &&,
\* {{,  {{ if a
OpenEnds ==
    {<<OpenCurly, Identifier(nA)>>,
     <<OpenCurly, Identifier(nA), Operator(<<"&", "&">>), Identifier(nB)>>,
     <<OpenCurly, Identifier(nA), Operator(<<"&", "&">>)>>,
     <<OpenCurly>>,
     <<OpenCurly, Keyword(kwIf), Identifier(nA)>>}

\* An expression tag as the body of an if and of a for.
InIf(body)  == Tag(<<Keyword(kwIf), Identifier(nA)>>) \o Tag(body) \o Tag(<<Keyword(kwEndIf)>>)
InFor(body) == Tag(<<Keyword(kwFor), Identifier(nX), Keyword(kwIn), Identifier(nXs)>>)
               \o Tag(body) \o Tag(<<Keyword(kwEndFor)>>)

\* For tags without the keyword in, and with something else in its place:
\* for x xs,  for x,  for x in,  for x if xs,  for in xs
ForHeaders ==
    {<<Keyword(kwFor), Identifier(nX), Identifier(nXs)>>,
     <<Keyword(kwFor), Identifier(nX)>>,
     <<Keyword(kwFor), Identifier(nX), Keyword(kwIn)>>,
     <<Keyword(kwFor), Identifier(nX), Keyword(kwIf), Identifier(nXs)>>,
     <<Keyword(kwFor), Keyword(kwIn), Identifier(nXs)>>}

\* Templates with an if or an elif tag that has no condition:  {{ if }},
\* t{{ if }}t,  {{ if }}t{{ endif }},  {{ if a }}{{ elif }}{{ endif }},
\* {{ if a }}t{{ elif }}t{{ else }}t{{ endif }},  {{ if a }}{{ if }}{{ endif }}{{ endif }},
\* {{ for x in xs }}{{ if }}{{ endif }}{{ endfor }}
NoConditions ==
    LET t     == <<Token("TEXT", <<"t">>)>>
        if    == Tag(<<Keyword(kwIf)>>)
        elif  == Tag(<<Keyword(kwElif)>>)
        ifA   == Tag(<<Keyword(kwIf), Identifier(nA)>>)
        endif == Tag(<<Keyword(kwEndIf)>>)
    IN  {if, t \o if \o t, if \o t \o endif, ifA \o elif \o endif,
         ifA \o t \o elif \o t \o Tag(<<Keyword(kwElse)>>) \o t \o endif,
         ifA \o if \o endif \o endif,
         Tag(<<Keyword(kwFor), Identifier(nX), Keyword(kwIn), Identifier(nXs)>>)
             \o if \o endif \o Tag(<<Keyword(kwEndFor)>>)}

ParseInputs ==
    NoConditions \cup
    {Flatten(q) : q \in SeqsUpTo(BlockSegments, MaxTags)}
    \cup {Flatten(q) \o e : q \in SeqsUpTo(BlockSegments, MaxTags - 2), e \in OpenEnds}
    \cup {pre \o Tag(b) : pre \in {<<>>, <<Token("TEXT", <<"t">>)>>},
                          b \in GroupBodies \cup ExprBodies}
    \cup {InIf(b) : b \in ExprBodies} \cup {InFor(b) : b \in ExprBodies}
    \cup {Tag(h) \o body \o Tag(<<Keyword(kwEndFor)>>) :
              h \in ForHeaders, body \in {<<>>, Tag(<<Identifier(nX)>>)}}

\* ---- sources handed to Tokenize ----

MaxPieces == 4   \* pieces of a source

\* The pieces the sources are made of: the tag delimiters, single braces, a
\* quote, a space, a letter, a one-character and a two-character operator, and
\* the two bytes of a letter outside ASCII (e with an acute accent).
SourcePieces ==
    {<<"{", "{">>, <<"}", "}">>, <<"{">>, <<"}">>, <<"'">>, <<" ">>, <<"a">>, <<"!">>,
     <<"=", "=">>, <<"C3", "A9">>}

Sources == {Flatten(q) : q \in SeqsUpTo(SourcePieces, MaxPieces)}

\* Sources of one tag that holds a string literal:  {{ pre 'c' post, with pre
\* ending in a space or an operator, c of up to MaxPieces - 2 pieces without a
\* quote, and post the end of the tag or of the source.
LiteralPres  == {<<" ">>, <<"a", " ">>, <<"a", "=", "=">>, <<"!">>}
LiteralPosts == {<<>>, <<"}", "}">>, <<" ", "}", "}">>}
LiteralContents ==
    {Flatten(q) : q \in SeqsUpTo(SourcePieces \ {<<"'">>}, MaxPieces - 2)}

LiteralSource(pre, c, post) == <<"{", "{">> \o pre \o <<"'">> \o c \o <<"'">> \o post

LiteralSources ==
    {LiteralSource(pre, c, post) :
        pre \in LiteralPres, c \in LiteralContents, post \in LiteralPosts}

nK == <<"k">>

\* {{ a['k'] }}
IndexTag == <<"{", "{", " ", "a", "[", "'", "k", "'", "]", " ", "}", "}">>

\* {{for x in xs}}{{ x['k'] }}{{endfor}}
IndexInLoop ==
    <<"{", "{", "f", "o", "r", " ", "x", " ", "i", "n", " ", "x", "s", "}", "}">>
    \o <<"{", "{", " ", "x", "[", "'", "k", "'", "]", " ", "}", "}">>
    \o <<"{", "{", "e", "n", "d", "f", "o", "r", "}", "}">>

\* The values a and the elements of xs are bound to: maps with and without the
\* key k, and a value that is no map.
IndexValues ==
    {MapV([k \in {nK} |-> StrV(<<"p">>)]), MapV([k \in {nK} |-> IntV(3)]),
     MapV([k \in {nA} |-> StrV(<<"p">>)]), MapV(<<>>), StrV(<<"p">>)}

IndexContexts ==
    Maps([n \in {nA, nXs} |->
            IF n = nA THEN {Absent} \cup IndexValues
            ELSE {SliceV(<<v>>) : v \in IndexValues}
                 \cup {SliceV(<<MapV([k \in {nK} |-> StrV(<<"p">>)]),
                                MapV([k \in {nK} |-> IntV(3)])>>)}])

\* The sources of the pipeline with their contexts: every source with the empty
\* context, the index accesses with the contexts above.
PipelineInputs ==
    {[source |-> src, ctx |-> <<>>] : src \in Sources}
    \cup {[source |-> src, ctx |-> c] : src \in {IndexTag, IndexInLoop}, c \in IndexContexts}

----------------------------------------------------------------------------
(* Specifications *)

Idle == <<>>

\* renderer.New(ast, context), then Render()
RenderInit ==
    /\ stage = "new"
    /\ \E in \in RenderInputs : AST = in.ast /\ Context = in.ctx /\ Context0 = in.ctx
    /\ rendered = Idle
    /\ lexer = Idle /\ tokens = Idle /\ parsed = Idle /\ expr = Idle /\ evaluated = Idle /\ renderers = Idle

DoRender ==
    /\ stage = "new"
    /\ LET r == Render(AST, Context)
       IN  /\ rendered' = [out |-> r.out, err |-> r.err]
           /\ Context' = r.ctx
    /\ AST' = RenderLeft(AST, Context)
    /\ stage' = "rendered"
    /\ UNCHANGED <<lexer, tokens, parsed, Context0, expr, evaluated, renderers>>

RenderNext == DoRender

SpecRender == RenderInit /\ [][RenderNext]_vars

\* renderer.New(nil, context), then evaluateExpression(expr)
EvalInit ==
    /\ stage = "expr"
    /\ \E in \in EvalInputs : expr = in.expr /\ Context = in.ctx /\ Context0 = in.ctx
    /\ evaluated = Idle
    /\ lexer = Idle /\ tokens = Idle /\ parsed = Idle /\ AST = Idle /\ rendered = Idle /\ renderers = Idle

DoEvaluate ==
    /\ stage = "expr"
    /\ evaluated' = evaluateExpression(expr, Context)
    /\ stage' = "evaluated"
    /\ UNCHANGED <<lexer, tokens, parsed, AST, Context, Context0, rendered, expr, renderers>>

EvalNext == DoEvaluate

SpecEval == EvalInit /\ [][EvalNext]_vars

MaxTurns == 2   \* turns of a loop that does not end, after which the model stops counting

\* parser.New(tokens), then Parse()
ParseInit ==
    /\ stage = "tokens"
    /\ tokens \in ParseInputs
    /\ lexer = Idle /\ parsed = Idle
    /\ AST = Idle /\ Context = Idle /\ Context0 = Idle /\ rendered = Idle
    /\ expr = Idle /\ evaluated = Idle /\ renderers = Idle

\* Parse up to its return or panic, or up to the loop it does not leave, r being
\* what the model's Parse gives.
ParseUpTo(r) ==
    IF r.end = "loop"
    THEN /\ stage' = "parseVar"
         /\ parsed' = [val |-> r.val, again |-> r.again, end |-> "loop", turns |-> 0]
    ELSE /\ stage' = "parsed"
         /\ parsed' = [val |-> r.val, err |-> r.err, end |-> r.end]

DoParse ==
    /\ stage = "tokens"
    /\ ParseUpTo(Parse(NewParser(tokens)))
    /\ UNCHANGED <<lexer, tokens, AST, Context, Context0, rendered, expr, evaluated, renderers>>

\* One more turn of the loop of parseVar at the end of the tokens: the last
\* token's node is appended again and the position stays where it is.  The
\* list grows at every turn; the model counts MaxTurns of them.
ParseVarTurn ==
    /\ stage = "parseVar"
    /\ parsed' = IF parsed.turns < MaxTurns
                 THEN [parsed EXCEPT !.val = @ \o parsed.again, !.turns = @ + 1]
                 ELSE parsed
    /\ UNCHANGED <<stage, lexer, tokens, AST, Context, Context0, rendered, expr, evaluated, renderers>>

ParseNext == DoParse \/ ParseVarTurn

SpecParse == ParseInit /\ [][ParseNext]_vars

\* A step that leaves the stage tokens: under ParseNext these are the steps of
\* DoParse, which is enabled in every state of that stage.
ParseRuns == stage = "tokens" /\ stage' \in {"parseVar", "parsed"}

\* Parse, once called, runs on: it takes its step, and the loop of parseVar
\* takes its next turn, as long as there is one to take.
SpecParseLive == SpecParse /\ WF_stage(ParseRuns) /\ WF_vars(ParseVarTurn)

\* lexer.New(source), then Tokenize()
TokenizeInit ==
    /\ stage = "source"
    /\ lexer \in {NewLexer(src) : src \in Sources \cup LiteralSources}
    /\ tokens = Idle /\ parsed = Idle
    /\ AST = Idle /\ Context = Idle /\ Context0 = Idle /\ rendered = Idle
    /\ expr = Idle /\ evaluated = Idle /\ renderers = Idle

\* One turn of the loop of Tokenize: advance returns a byte.
TokenizeTurn ==
    /\ stage = "source" /\ lexer.at = "loop" /\ hasByte(lexer)
    /\ lexer' = IF lexer.mode = "TextMode" THEN textTurn(lexerAdvance(lexer), byteAt(lexer))
                 ELSE tagTurn(lexerAdvance(lexer), byteAt(lexer))
    /\ UNCHANGED <<stage, tokens, parsed, AST, Context, Context0, rendered, expr, evaluated, renderers>>

\* One turn of the loop of a string literal inside Tokenize.
TokenizeString ==
    /\ stage = "source" /\ lexer.at = "string"
    /\ lexer' = stringTurn(lexer)
    /\ UNCHANGED <<stage, tokens, parsed, AST, Context, Context0, rendered, expr, evaluated, renderers>>

\* advance returns no byte: Tokenize handles the remaining text and returns.
TokenizeReturn ==
    /\ stage = "source" /\ lexer.at = "loop" /\ ~hasByte(lexer)
    /\ lexer' = [lexer EXCEPT !.Tokens = remainingText(lexer)]
    /\ tokens' = remainingText(lexer)
    /\ stage' = "tokens"
    /\ UNCHANGED <<parsed, AST, Context, Context0, rendered, expr, evaluated, renderers>>

TokenizeNext == TokenizeTurn \/ TokenizeString \/ TokenizeReturn

SpecTokenize == TokenizeInit /\ [][TokenizeNext]_vars

\* Tokenize, once called, runs on.
SpecTokenizeLive ==
    SpecTokenize /\ WF_vars(TokenizeTurn) /\ WF_vars(TokenizeString) /\ WF_vars(TokenizeReturn)

\* The pipeline of main: lexer.New(source).Tokenize(), parser.New(tokens).Parse(),
\* renderer.New(ast, context).Render().
PipelineInit ==
    /\ stage = "source"
    /\ \E in \in PipelineInputs :
           lexer = NewLexer(in.source) /\ Context = in.ctx /\ Context0 = in.ctx
    /\ tokens = Idle /\ parsed = Idle /\ AST = Idle /\ rendered = Idle
    /\ expr = Idle /\ evaluated = Idle /\ renderers = Idle

\* Render of the AST that Parse returned.
RenderParsed ==
    /\ stage = "parsed" /\ parsed.end = "return" /\ parsed.err = NoErr
    /\ AST' = RenderLeft(parsed.val, Context)
    /\ LET r == Render(parsed.val, Context)
       IN  /\ rendered' = [out |-> r.out, err |-> r.err]
           /\ Context' = r.ctx
    /\ stage' = "rendered"
    /\ UNCHANGED <<lexer, tokens, parsed, Context0, expr, evaluated, renderers>>

PipelineNext == TokenizeNext \/ ParseNext \/ RenderParsed

SpecPipeline == PipelineInit /\ [][PipelineNext]_vars

\* Two goroutines, each with renderer.New(ast, its own map).Render(), ast being
\* the same slice of nodes for both.  Context is the heap of the callers' maps:
\* Context[a] is the map at address a.
Goroutines == 1..2

ConcurrentInit ==
    /\ stage = "concurrent"
    /\ \E in \in ConcurrentInputs :
           /\ AST = in.ast /\ Context = in.ctxs /\ Context0 = in.ctxs
           /\ renderers = [g \in Goroutines |-> Goroutine(NewRenderer(in.ast, g))]
    /\ rendered = Idle
    /\ lexer = Idle /\ tokens = Idle /\ parsed = Idle /\ expr = Idle /\ evaluated = Idle

\* r.Context of goroutine g
ContextOf(g) == Context[renderers[g].r.Context]

Running(g) == stage = "concurrent" /\ renderers[g].at = "running"

\* Render(): the call of renderNodes(r.AST)
RenderCall(g) ==
    /\ stage = "concurrent" /\ renderers[g].at = "new"
    /\ renderers' = [renderers EXCEPT
                        ![g] = [Push(renderers[g], nodesFrame(renderers[g].r.AST, 1))
                                    EXCEPT !.at = "running"]]
    /\ UNCHANGED <<stage, lexer, tokens, parsed, AST, Context, Context0, rendered, expr,
                   evaluated>>

\* One turn of the loop of the renderNodes on top of the stack of g.
NodesTurn(g) ==
    /\ Running(g) /\ renderers[g].ret = <<>> /\ renderers[g].stack # <<>>
    /\ Top(renderers[g].stack).fn = "renderNodes"
    /\ renderers' = [renderers EXCEPT
                        ![g] = nodesTurn(renderers[g], Top(renderers[g].stack), ContextOf(g))]
    /\ UNCHANGED <<stage, lexer, tokens, parsed, AST, Context, Context0, rendered, expr,
                   evaluated>>

\* One turn of a loop of the renderForNode on top of the stack of g.
ForTurn(g) ==
    /\ Running(g) /\ renderers[g].ret = <<>> /\ renderers[g].stack # <<>>
    /\ Top(renderers[g].stack).fn = "renderForNode"
    /\ renderers' = [renderers EXCEPT
                        ![g] = forTurn(renderers[g], Top(renderers[g].stack), ContextOf(g)).g]
    /\ Context' = [Context EXCEPT
                      ![renderers[g].r.Context] =
                          forTurn(renderers[g], Top(renderers[g].stack), ContextOf(g)).ctx]
    /\ UNCHANGED <<stage, lexer, tokens, parsed, AST, Context0, rendered, expr, evaluated>>

\* A call of g returns to its caller.
ReturnTurn(g) ==
    /\ Running(g) /\ renderers[g].ret # <<>> /\ renderers[g].stack # <<>>
    /\ renderers' = [renderers EXCEPT
                        ![g] = returnTurn(renderers[g], Top(renderers[g].stack),
                                          renderers[g].ret[1])]
    /\ UNCHANGED <<stage, lexer, tokens, parsed, AST, Context, Context0, rendered, expr,
                   evaluated>>

\* Render() of g returns.
RenderReturn(g) ==
    /\ Running(g) /\ renderers[g].ret # <<>> /\ renderers[g].stack = <<>>
    /\ renderers' = [renderers EXCEPT ![g].at = "done"]
    /\ UNCHANGED <<stage, lexer, tokens, parsed, AST, Context, Context0, rendered, expr,
                   evaluated>>

ConcurrentNext ==
    \E g \in Goroutines :
        RenderCall(g) \/ NodesTurn(g) \/ ForTurn(g) \/ ReturnTurn(g) \/ RenderReturn(g)

SpecConcurrent == ConcurrentInit /\ [][ConcurrentNext]_vars

----------------------------------------------------------------------------
(* Properties of Render *)

Returned == stage = "rendered"
Failed   == Returned /\ rendered.err # NoErr

\* C1: context isolation.  After Render returns, with a result or with an error,
\* the caller's context has exactly the keys and values it had before the call.
C1_ContextIsolation == Returned => Context = Context0

\* The children of an IF_NODE by their role.
IfCondition(n) == n.Children[1]
BranchesOf(n, type) == SelectSeq(n.Children, LAMBDA c : c.Type = type)
ElifsOf(n) == IF BranchesOf(n, "ELIF_BRANCH") = <<>> THEN <<>>
              ELSE BranchesOf(n, "ELIF_BRANCH")[1].Children

\* The index of the first elif of the chain whose condition is truthy, 0 if none;
\* -1 if a condition evaluated on the way there fails.
RECURSIVE FirstTruthyElif(_, _, _)
FirstTruthyElif(items, j, ctx) ==
    IF j > Len(items) THEN 0
    ELSE LET c == conditionOf(items[j].Children[1], ctx)
         IN  IF c.err # NoErr THEN -1
             ELSE IF c.val THEN j
             ELSE FirstTruthyElif(items, j + 1, ctx)

\* All the conditions the if evaluates do so without an error.
ConditionsEvaluate(n, ctx) ==
    LET c == conditionOf(IfCondition(n), ctx)
    IN  /\ c.err = NoErr
        /\ ~c.val => FirstTruthyElif(ElifsOf(n), 1, ctx) >= 0

\* The one body the if node selects: the then body, the body of the first truthy
\* elif, the else body when every condition is falsy, or nothing.
SelectedBody(n, ctx) ==
    LET c == conditionOf(IfCondition(n), ctx)
        j == FirstTruthyElif(ElifsOf(n), 1, ctx)
    IN  IF c.val THEN BranchesOf(n, "THEN_BRANCH")[1].Children
        ELSE IF j > 0 THEN Tail(ElifsOf(n)[j].Children)
        ELSE IF BranchesOf(n, "ELSE_BRANCH") # <<>>
        THEN BranchesOf(n, "ELSE_BRANCH")[1].Children
        ELSE <<>>

LoneIf == Len(AST) = 1 /\ AST[1].Type = "IF_NODE"

\* C2: branch selection.  When its conditions evaluate without error, an if node
\* renders as the one body it selects, whatever that body renders to: the else
\* body only if the if condition and every elif condition are falsy.
C2_BranchSelection ==
    (Returned /\ LoneIf /\ ConditionsEvaluate(AST[1], Context0))
        => LET body == renderNodes(SelectedBody(AST[1], Context0), Context0)
           IN  rendered = [out |-> body.out, err |-> body.err]

\* C3: no partial output.  Whenever Render returns an error the returned string
\* is empty.
C3_NoPartialOutput == Failed => rendered.out = <<>>

\* Render fails inside a for loop (an error wrapped by renderForNode) after a
\* text node and at least one whole iteration have been rendered.
C3_FailsAfterText ==
    /\ Failed
    /\ Len(rendered.err) >= 2
    /\ Len(AST) >= 2 /\ AST[1].Type = "TEXT_NODE" /\ AST[2].Type = "FOR_NODE"
    /\ nXs \in DOMAIN Context0 /\ Context0[nXs].t = "slice" /\ Len(Context0[nXs].l) = 2
    /\ nX \in DOMAIN Context /\ Context[nX] = Context0[nXs].l[2]

\* The conditions of an if node, the if's first and then its elifs', and the
\* bodies they guard.
Conditions(n) ==
    <<IfCondition(n)>> \o [j \in 1..Len(ElifsOf(n)) |-> ElifsOf(n)[j].Children[1]]
Bodies(n) ==
    <<BranchesOf(n, "THEN_BRANCH")[1].Children>>
    \o [j \in 1..Len(ElifsOf(n)) |-> Tail(ElifsOf(n)[j].Children)]

\* A condition that is a bare variable, or an expression of one variable, the
\* variable being a key of the context; and the value it is bound to.
IsBare(c) == c.Type = "VARIABLE_NODE"
IsOneVariable(c) ==
    c.Type = "EXPRESSION_NODE" /\ Len(c.Children) = 1 /\ c.Children[1].Type = "VARIABLE_NODE"
CondName(c) == IF IsBare(c) THEN Deref(c.Value) ELSE Deref(c.Children[1].Value)
IsBound(c, ctx) == (IsBare(c) \/ IsOneVariable(c)) /\ CondName(c) \in DOMAIN ctx
CondValue(c, ctx) == ctx[CondName(c)]

\* The condition is falsy, without an error.
IsFalsy(c, ctx) ==
    /\ IsBound(c, ctx)
    /\ IF IsBare(c) THEN CondValue(c, ctx) = BoolV(FALSE) ELSE ~isTruthy(CondValue(c, ctx))

\* What the else body renders to, nothing when there is no else.
ElseBody(n, ctx) ==
    IF BranchesOf(n, "ELSE_BRANCH") = <<>> THEN Result(<<>>, NoErr, ctx)
    ELSE renderNodes(BranchesOf(n, "ELSE_BRANCH")[1].Children, ctx)

NotABoolean == [out |-> <<>>, err |-> RenderError("condition variable is not a boolean")]

\* C12: typed bare-variable condition.  When the condition of an if, or of an
\* elif that is reached (every condition before it being falsy), is a bare
\* variable bound to a value that is not a boolean, Render returns the type error
\* and no output; when it is an expression, no value is a type error: a truthy
\* value renders the body the condition guards, and a falsy value of the last
\* condition renders the else body.
C12_TypedCondition ==
    (Returned /\ LoneIf)
        => \A k \in 1..Len(Conditions(AST[1])) :
              LET c == Conditions(AST[1])[k]
                  body == renderNodes(Bodies(AST[1])[k], Context0)
              IN  (IsBound(c, Context0)
                   /\ \A i \in 1..(k - 1) : IsFalsy(Conditions(AST[1])[i], Context0))
                      => /\ (IsBare(c) /\ CondValue(c, Context0).t # "bool")
                               => rendered = NotABoolean
                         /\ (IsOneVariable(c) /\ ~isTruthy(CondValue(c, Context0))
                               /\ k = Len(Conditions(AST[1])))
                               => rendered = [out |-> ElseBody(AST[1], Context0).out,
                                              err |-> ElseBody(AST[1], Context0).err]
                         /\ (IsOneVariable(c) /\ isTruthy(CondValue(c, Context0))
                               /\ (k = 1 \/ body.out # <<>> \/ body.err # NoErr))
                               => rendered = [out |-> body.out, err |-> body.err]

\* {{ if a }}T{{ elif b }}B{{ else }}E{{ endif }} with a false and b the number 3:
\* the type error of the elif, and neither B nor E.
C12_NumberAsElifCondition ==
    /\ Returned /\ LoneIf
    /\ Len(Conditions(AST[1])) = 2
    /\ {nA, nB} \subseteq DOMAIN Context0
    /\ Conditions(AST[1])[1] = VarNode(nA) /\ Context0[nA] = BoolV(FALSE)
    /\ Conditions(AST[1])[2] = VarNode(nB) /\ Context0[nB] = IntV(3)
    /\ rendered = NotABoolean

\* A condition alone: it is falsy, it is truthy, it fails.
CondFalsy(c, ctx) ==
    conditionOf(c, ctx).known /\ conditionOf(c, ctx).err = NoErr /\ ~conditionOf(c, ctx).val
CondTruthy(c, ctx) ==
    conditionOf(c, ctx).known /\ conditionOf(c, ctx).err = NoErr /\ conditionOf(c, ctx).val
CondFails(c, ctx) == conditionOf(c, ctx).err # NoErr

\* C29: conditions are evaluated lazily and in order.  The condition of the if
\* is evaluated first and the conditions of the elifs in source order, each only
\* while all the conditions before it were falsy: the first condition that
\* fails gives its error, the first that is truthy selects its body, and no
\* condition after that one is evaluated, so an undefined or non-boolean
\* variable in a later elif condition is no error.
C29_LazyConditions ==
    (Returned /\ LoneIf)
        => \A k \in 1..Len(Conditions(AST[1])) :
              LET c == Conditions(AST[1])[k]
                  body == renderNodes(Bodies(AST[1])[k], Context0)
              IN  (\A i \in 1..(k - 1) : CondFalsy(Conditions(AST[1])[i], Context0))
                      => /\ CondFails(c, Context0)
                               => rendered = [out |-> <<>>, err |-> conditionOf(c, Context0).err]
                         /\ (CondTruthy(c, Context0)
                               /\ (k = 1 \/ body.out # <<>> \/ body.err # NoErr))
                               => rendered = [out |-> body.out, err |-> body.err]
                         /\ (CondTruthy(c, Context0)
                               /\ ~(k = 1 \/ body.out # <<>> \/ body.err # NoErr))
                               => rendered = [out |-> ElseBody(AST[1], Context0).out,
                                              err |-> ElseBody(AST[1], Context0).err]

\* {{ if a }}..{{ elif b }}B{{ elif x }}..{{ endif }} with a false, b true and x
\* undefined: B, and no error of x.
C29_LaterElifUnread ==
    /\ Returned /\ LoneIf
    /\ Len(Conditions(AST[1])) = 3
    /\ Conditions(AST[1])[1] = VarNode(nA)
    /\ Conditions(AST[1])[2] = VarNode(nB)
    /\ Conditions(AST[1])[3] = ExprNode(<<VarNode(nX)>>)
    /\ {nA, nB} \subseteq DOMAIN Context0 /\ nX \notin DOMAIN Context0
    /\ Context0[nA] = BoolV(FALSE) /\ Context0[nB] = BoolV(TRUE)
    /\ rendered = [out |-> <<"B">>, err |-> NoErr]

\* The index of the first node of the template that is no text, 0 if there is
\* none; the texts before it are what Render has written when it reaches it.
FirstTag ==
    IF \A i \in 1..Len(AST) : AST[i].Type = "TEXT_NODE" THEN 0
    ELSE CHOOSE i \in 1..Len(AST) :
             AST[i].Type # "TEXT_NODE" /\ \A j \in 1..(i - 1) : AST[j].Type = "TEXT_NODE"

RECURSIVE TextsBefore(_)
TextsBefore(i) == IF i <= 1 THEN <<>> ELSE TextsBefore(i - 1) \o Deref(AST[i - 1].Value)

\* The names of the variable operands of an expression without nested
\* expressions, <<>> for any other node.
OperandNamesOf(node) ==
    IF node.Type = "EXPRESSION_NODE"
       /\ \A i \in 1..Len(node.Children) : node.Children[i].Type # "EXPRESSION_NODE"
    THEN {Deref(node.Children[i].Value) :
             i \in {i \in 1..Len(node.Children) : node.Children[i].Type = "VARIABLE_NODE"}}
    ELSE {}

NotFound(kind) == [out |-> <<>>, err |-> RenderError(kind)]

\* C13: undefined names are errors.  Render returns a RenderError, and no
\* output, when the first tag of the template is a variable whose name is no
\* key of the context, an if whose bare-variable condition is no key, or an
\* expression (as a tag or as the condition of an if) with a variable operand
\* that is no key; a key bound to nil is found and renders as <nil>.
C13_UndefinedNames ==
    (Returned /\ FirstTag > 0)
        => LET node == AST[FirstTag]
               cond == IF node.Type = "IF_NODE" THEN IfCondition(node) ELSE node
           IN  /\ (node.Type = "VARIABLE_NODE" /\ Deref(node.Value) \notin DOMAIN Context0)
                     => rendered = NotFound("variable not found in context")
               /\ (node.Type = "VARIABLE_NODE" /\ Deref(node.Value) \in DOMAIN Context0
                     /\ Context0[Deref(node.Value)] = NilV /\ FirstTag = Len(AST))
                     => rendered = [out |-> TextsBefore(FirstTag) \o <<"<", "n", "i", "l", ">">>,
                                    err |-> NoErr]
               /\ (node.Type = "IF_NODE" /\ IsBare(cond) /\ CondName(cond) \notin DOMAIN Context0)
                     => rendered = NotFound("condition variable not found in context")
               /\ (OperandNamesOf(cond) \ DOMAIN Context0 # {})
                     => rendered = NotFound("variable not found in context")

\* {{ b || a }} with b true and a no key of the context: the error, though b
\* decides the result.
C13_MissingOperand ==
    /\ Returned
    /\ AST = <<ExprNode(<<VarNode(nB), OpNode("OP_OR"), VarNode(nA)>>)>>
    /\ nB \in DOMAIN Context0 /\ Context0[nB] = BoolV(TRUE) /\ nA \notin DOMAIN Context0
    /\ rendered = NotFound("variable not found in context")

\* The template is one for node; its parts.
LoneFor == Len(AST) = 1 /\ AST[1].Type = "FOR_NODE"
IterateeName == Deref(AST[1].Children[1].Value)
IteratorName == Deref(AST[1].Children[2].Value)
ForBodyNodes == AST[1].Children[3].Children

\* The for node ranges over a slice of the context.
OverSlice ==
    LoneFor /\ IteratorName \in DOMAIN Context0 /\ Context0[IteratorName].t = "slice"

\* What the body renders to for one element: the iteratee name bound to the
\* element, every other entry as in the caller's context.
BodyFor(item) == renderNodes(ForBodyNodes, MapSet(Context0, IterateeName, item))

RECURSIVE BodiesUpTo(_, _)
BodiesUpTo(items, n) ==
    IF n = 0 THEN <<>> ELSE BodiesUpTo(items, n - 1) \o BodyFor(items[n]).out

\* C14: for-loop output.  A for node over a slice of n elements renders, when
\* no rendering of its body fails, as the n renderings of the body in the order
\* of the slice, the i-th with the iteratee name bound to the i-th element and
\* the rest of the context unchanged; for n = 0 the output is empty and the
\* body is not rendered, whatever it holds.
C14_ForOutput ==
    (Returned /\ OverSlice)
        => LET items == Context0[IteratorName].l
           IN  (\A i \in 1..Len(items) : BodyFor(items[i]).err = NoErr)
                  => rendered = [out |-> BodiesUpTo(items, Len(items)), err |-> NoErr]

\* {{ for x in xs }}{{ x }}{{ endfor }} over [true, "p"] renders as truep.
C14_TwoElements ==
    /\ Returned /\ OverSlice
    /\ ForBodyNodes = <<VarNode(nX)>>
    /\ Context0[nXs] = SliceV(<<BoolV(TRUE), StrV(<<"p">>)>>)
    /\ rendered = [out |-> <<"t", "r", "u", "e", "p">>, err |-> NoErr]

\* C15: the iterator must be a sequence.  When the first tag of the template is
\* a for node whose iterator name is no key of the context, or is bound to a
\* value that is no slice (a map, a string, a number, a boolean, nil), Render
\* returns a RenderError and no output, and the context is as the caller gave
\* it: the body was not rendered and the iteratee name was not bound.
C15_IteratorIsSequence ==
    (Returned /\ FirstTag > 0 /\ AST[FirstTag].Type = "FOR_NODE")
        => LET iterator == Deref(AST[FirstTag].Children[2].Value)
           IN  /\ iterator \notin DOMAIN Context0
                     => (rendered = NotFound("iterator variable not found in context")
                         /\ Context = Context0)
               /\ (iterator \in DOMAIN Context0 /\ Context0[iterator].t # "slice")
                     => (rendered = NotFound("iterator must be a slice")
                         /\ Context = Context0)

\* {{ for x in xs }}{{ x }}{{ endfor }} with xs a map and x not in the context.
C15_MapAsIterator ==
    /\ Returned /\ LoneFor
    /\ nXs \in DOMAIN Context0 /\ Context0[nXs].t = "map" /\ nX \notin DOMAIN Context0
    /\ rendered = NotFound("iterator must be a slice")
    /\ nX \notin DOMAIN Context

\* The first tag of the template is a for node; the nodes after it.
ForFirst == FirstTag > 0 /\ AST[FirstTag].Type = "FOR_NODE"
AfterFor == SubSeq(AST, FirstTag + 1, Len(AST))

iterateeOf(f) == Deref(f.Children[1].Value)
bodyOf(f)     == f.Children[3].Children

\* What Render returns when the for node rendered to loop and the nodes after
\* it render to after.
ThenAfter(loop, after) ==
    IF after.err # NoErr THEN [out |-> <<>>, err |-> after.err]
    ELSE [out |-> TextsBefore(FirstTag) \o loop.out \o after.out, err |-> NoErr]

\* The for node f, rendered in ctx to loop without error, leaves the iteratee
\* name as it was in ctx.
Scoped(f, ctx, loop) ==
    loop.err = NoErr => variableLookup(loop.ctx, iterateeOf(f)) = variableLookup(ctx, iterateeOf(f))

\* The body of f begins with a for node of the same iteratee name.
ReusesName(f) ==
    /\ bodyOf(f) # <<>>
    /\ bodyOf(f)[1].Type = "FOR_NODE"
    /\ iterateeOf(bodyOf(f)[1]) = iterateeOf(f)

\* One turn of the outer loop f with the iteratee name bound to item: the inner
\* loop, when it ends without error, leaves the name bound to item, and the rest
\* of the body renders as it does with the name bound to item.
RestOfBody(f, c, inner, rest, body) ==
    inner.err = NoErr =>
        /\ variableLookup(inner.ctx, iterateeOf(f)) = variableLookup(c, iterateeOf(f))
        /\ body.err = rest.err
        /\ rest.err = NoErr => body.out = inner.out \o rest.out

OuterTurn(f, c) ==
    RestOfBody(f, c, renderForNode(bodyOf(f)[1], c), renderNodes(Tail(bodyOf(f)), c),
               renderNodes(bodyOf(f), c))

\* C23: the loop binding is scoped.  After a for node has finished without
\* error the iteratee name is bound as it was before the loop, or absent if it
\* was absent, and the nodes after the loop render with that binding; when the
\* body begins with a loop of the same iteratee name, the rest of the body sees
\* the outer loop's current element after the inner loop has finished.
C23_LoopScope ==
    (Returned /\ ForFirst) =>
        /\ Scoped(AST[FirstTag], Context0, renderForNode(AST[FirstTag], Context0))
        /\ renderForNode(AST[FirstTag], Context0).err = NoErr
               => [out |-> rendered.out, err |-> rendered.err]
                      = ThenAfter(renderForNode(AST[FirstTag], Context0),
                                  renderNodes(AfterFor, Context0))
        /\ (ReusesName(AST[FirstTag]) /\ nXs \in DOMAIN Context0 /\ Context0[nXs].t = "slice")
               => \A j \in 1..Len(Context0[nXs].l) :
                      OuterTurn(AST[FirstTag],
                                MapSet(Context0, iterateeOf(AST[FirstTag]), Context0[nXs].l[j]))

\* {{for x in xs}}{{for x in xs}}{{x}}{{endfor}}{{x}}{{endfor}}{{x}} over
\* [true, "p"] with x bound to false before the loop: after each inner loop x is
\* the outer element, after the outer loop it is false again.
C23_SameNameNested ==
    /\ Returned
    /\ AST = <<ForNode(nX, nXs, <<ForNode(nX, nXs, <<VarNode(nX)>>), VarNode(nX)>>), VarNode(nX)>>
    /\ {nX, nXs} \subseteq DOMAIN Context0
    /\ Context0[nX] = BoolV(FALSE)
    /\ Context0[nXs] = SliceV(<<BoolV(TRUE), StrV(<<"p">>)>>)
    /\ Context = Context0
    /\ rendered = [out |-> <<"t", "r", "u", "e", "p", "t", "r", "u", "e",
                             "t", "r", "u", "e", "p", "p",
                             "f", "a", "l", "s", "e">>,
                   err |-> NoErr]

\* C24: the AST is read-only during rendering.  Render, whether it returns a
\* string or an error, leaves every node of the AST as it was, the children of
\* the elif items whose conditions it read included; so rendering the AST it
\* leaves with the context as first given returns the same again.
C24_ASTReadOnly ==
    [][DoRender =>
          /\ AST' = AST
          /\ Render(AST', Context0').out = rendered'.out
          /\ Render(AST', Context0').err = rendered'.err]_vars

\* {{ if a }}T{{ elif b }}B{{ else }}E{{ endif }} with a false and b true: the
\* elif item was read and its body rendered, and it still begins with its
\* condition.
C24_ElifItemKept ==
    /\ Returned
    /\ Len(AST) = 1 /\ AST[1].Type = "IF_NODE"
    /\ Len(AST[1].Children) = 4
    /\ AST[1].Children[3]
           = Node("ELIF_BRANCH", NilStr, <<ElifItem(VarNode(nB), <<TextNode(<<"B">>)>>)>>)
    /\ {nA, nB} \subseteq DOMAIN Context0
    /\ Context0[nA] = BoolV(FALSE) /\ Context0[nB] = BoolV(TRUE)
    /\ rendered = [out |-> <<"B">>, err |-> NoErr]

\* Render() of goroutine g has returned.
Done(g) == stage = "concurrent" /\ renderers[g].at = "done"

\* What the render of goroutine g gives when it runs alone, from start to end,
\* on the map its caller made.
Alone(g) == Render(AST, Context0[g])

\* C21: independent concurrent renders.  Two renders that run at the same time
\* over the same AST, each with a context of its own, do not interfere, however
\* their steps interleave: each returns the string or error, and leaves its
\* context in the state, that it gives when it runs alone.
C21_Independent ==
    \A g \in Goroutines :
        Done(g) => /\ renderers[g].ret[1] = [out |-> Alone(g).out, err |-> Alone(g).err]
                   /\ Context[g] = Alone(g).ctx

\* Both renders of a template with a for loop have returned, from contexts that
\* differ, with strings that differ.
C21_BothRendered ==
    /\ Done(1) /\ Done(2)
    /\ \E i \in 1..Len(AST) : AST[i].Type = "FOR_NODE"
    /\ Context0[1] # Context0[2]
    /\ renderers[1].ret[1].err = NoErr /\ renderers[2].ret[1].err = NoErr
    /\ renderers[1].ret[1].out # <<>> /\ renderers[2].ret[1].out # <<>>
    /\ renderers[1].ret[1].out # renderers[2].ret[1].out

----------------------------------------------------------------------------
(* Properties of evaluateExpression *)

Evaluated == stage = "evaluated"

\* The value of an operand node: a variable of the context or a literal.
OperandValue(node, ctx) ==
    CASE node.Type = "VARIABLE_NODE"       -> ctx[Deref(node.Value)]
      [] node.Type = "STRING_LITERAL_NODE" -> StrV(Deref(node.Value))
      [] node.Type = "NUMBER_LITERAL_NODE" -> FloatV(ParseFloat(Deref(node.Value)).n)

\* The index of the last node of seq whose type is in types, 0 if there is none.
LastOf(seq, types) ==
    LET at == {i \in 1..Len(seq) : seq[i].Type \in types}
    IN  IF at = {} THEN 0 ELSE CHOOSE i \in at : \A j \in at : j <= i

SelectAnd(left, right) == IF ~isTruthy(left) THEN left ELSE right
SelectOr(left, right)  == IF isTruthy(left) THEN left ELSE right

\* The value of the fully parenthesised reading of a parenthesis-free
\* expression: || groups last, then &&, then the comparisons, then prefix !.
RECURSIVE Grouped(_, _)
Grouped(seq, ctx) ==
    LET or  == LastOf(seq, {"OP_OR"})
        and == LastOf(seq, {"OP_AND"})
        cmp == LastOf(seq, ComparisonOps)
        left(k)  == Grouped(SubSeq(seq, 1, k - 1), ctx)
        right(k) == Grouped(SubSeq(seq, k + 1, Len(seq)), ctx)
    IN  IF or > 0 THEN SelectOr(left(or), right(or))
        ELSE IF and > 0 THEN SelectAnd(left(and), right(and))
        ELSE IF cmp > 0
        THEN BoolV(comparison(seq[cmp].Type, compareValues(left(cmp), right(cmp))))
        ELSE IF seq[1].Type = "OP_BANG" THEN BoolV(~isTruthy(Grouped(Tail(seq), ctx)))
        ELSE OperandValue(seq[1], ctx)

\* C7: operator precedence.  A parenthesis-free expression over operands, prefix
\* !, comparisons, && and || (at most one comparison per operand of && and ||)
\* evaluates to the value of its fully parenthesised reading: ! first, then the
\* comparisons, then &&, then ||.
C7_Precedence ==
    (Evaluated /\ expr \in FlatExprs \cup DoubleBangExprs)
        => evaluated = [val |-> Grouped(expr.Children, Context), err |-> NoErr]

\* a || b && c with a true and c false: grouping || first would give c.
C7_OrThenAnd ==
    /\ Evaluated
    /\ expr = ExprNode(<<VarNode(nA), OpNode("OP_OR"), VarNode(nB), OpNode("OP_AND"),
                         VarNode(nC)>>)
    /\ Context[nA] = BoolV(TRUE) /\ Context[nC] = BoolV(FALSE)
    /\ evaluated = [val |-> BoolV(TRUE), err |-> NoErr]

PairOp    == expr.Children[2].Type
PairLeft  == OperandValue(expr.Children[1], Context)
PairRight == OperandValue(expr.Children[3], Context)

\* C8: short-circuit as value selection.  left && right is left when left is
\* falsy and right otherwise, left || right is left when left is truthy and right
\* otherwise; the result is the operand's value itself, not a boolean made of it.
C8_ValueSelection ==
    (Evaluated /\ expr \in PairExprs /\ PairOp \in {"OP_AND", "OP_OR"})
        => /\ evaluated.err = NoErr
           /\ evaluated.val = IF PairOp = "OP_AND"
                              THEN (IF isTruthy(PairLeft) THEN PairRight ELSE PairLeft)
                              ELSE (IF isTruthy(PairLeft) THEN PairLeft ELSE PairRight)
           /\ evaluated.val \in {PairLeft, PairRight}

\* a && b with a the empty string: the result is the empty string, not false.
C8_EmptyStringSelected ==
    /\ Evaluated
    /\ expr = ExprNode(<<VarNode(nA), OpNode("OP_AND"), VarNode(nB)>>)
    /\ Context[nA] = StrV(<<>>) /\ Context[nB] = IntV(3)
    /\ evaluated = [val |-> StrV(<<>>), err |-> NoErr]

\* C9: null coalescing.  a ?? b evaluates without error, to the value of a when
\* a is not null and to the value of b when a is null.
C9_NullCoalescing ==
    (Evaluated /\ expr \in PairExprs /\ PairOp = "OP_NULL_COALESCE")
        => /\ evaluated.err = NoErr
           /\ evaluated.val = IF PairLeft # NilV THEN PairLeft ELSE PairRight

OperandTypes ==
    {"VARIABLE_NODE", "STRING_LITERAL_NODE", "NUMBER_LITERAL_NODE", "EXPRESSION_NODE"}

\* A ! of the expression is the last child, or is before a binary operator, or
\* comes right after an operand.
HasMisplacedBang(children) ==
    \E i \in 1..Len(children) :
        /\ children[i].Type = "OP_BANG"
        /\ \/ i = Len(children)
           \/ children[i + 1].Type \in BinaryOps
           \/ i > 1 /\ children[i - 1].Type \in OperandTypes

\* C25: ! is a prefix operator only.  An expression in which a ! does not come
\* right before an operand or a group, as in a ! and a && b !, is rejected with
\* an error instead of being evaluated.
C25_BangIsPrefix ==
    (Evaluated /\ HasMisplacedBang(expr.Children)) => evaluated.err # NoErr

\* C26: no evaluation skip.  Every operand of an expression is evaluated,
\* whether an operator will select it or not: an expression that names a
\* variable missing from the context returns the error of the missing variable,
\* also for d || e with d truthy and d && e with d falsy, e missing.
C26_NoEvaluationSkip ==
    (Evaluated /\ expr \in MissingExprs /\ ~(NamesOf(expr) \subseteq DOMAIN Context))
        => /\ evaluated.err # NoErr
           /\ evaluated.err[Len(evaluated.err)] = "variable not found in context"

\* d || e with d true and e missing.
C26_UnselectedOperandMissing ==
    /\ Evaluated
    /\ expr = ExprNode(<<VarNode(nD), OpNode("OP_OR"), VarNode(nE)>>)
    /\ nD \in DOMAIN Context /\ Context[nD] = BoolV(TRUE)
    /\ nE \notin DOMAIN Context
    /\ evaluated = EvalFail(Errorf("variable not found in context"))

\* Two operands of the expression are next to each other.
HasAdjacentOperands(children) ==
    \E i \in 1..(Len(children) - 1) :
        children[i].Type \in OperandTypes /\ children[i + 1].Type \in OperandTypes

\* A binary operator of the expression has no operand on its left, or neither
\* an operand nor a ! on its right.
BinaryLacksOperand(children) ==
    \E i \in 1..Len(children) :
        /\ children[i].Type \in BinaryOps
        /\ \/ i = 1
           \/ i = Len(children)
           \/ children[i - 1].Type \notin OperandTypes
           \/ children[i + 1].Type \in BinaryOps

\* C28: expression well-formedness at evaluation.  An expression gives a value
\* only if one value is left on the operand stack after all operators have been
\* applied: the empty expression, an expression with two adjacent operands and
\* an expression with a binary operator that lacks an operand give an error.
C28_WellFormed ==
    (Evaluated /\ \/ expr.Children = <<>>
                  \/ HasAdjacentOperands(expr.Children)
                  \/ BinaryLacksOperand(expr.Children))
        => evaluated.err # NoErr

\* The value of a binary operator on two values.
ApplyOp(op, left, right) ==
    CASE op = "OP_AND" -> SelectAnd(left, right)
      [] op = "OP_OR"  -> SelectOr(left, right)
      [] OTHER         -> BoolV(comparison(op, compareValues(left, right)))

\* operand, operator, operand, ... read from the rightmost pair outwards:
\* a o (b o (c o d)),  and from the leftmost pair on:  ((a o b) o c) o d.
RECURSIVE RightToLeft(_, _), LeftToRight(_, _)
RightToLeft(seq, ctx) ==
    IF Len(seq) = 1 THEN OperandValue(seq[1], ctx)
    ELSE ApplyOp(seq[2].Type, OperandValue(seq[1], ctx),
                 RightToLeft(SubSeq(seq, 3, Len(seq)), ctx))
LeftToRight(seq, ctx) ==
    IF Len(seq) = 1 THEN OperandValue(seq[1], ctx)
    ELSE ApplyOp(seq[Len(seq) - 1].Type, LeftToRight(SubSeq(seq, 1, Len(seq) - 2), ctx),
                 OperandValue(seq[Len(seq)], ctx))

\* The operators of the chain are all && or all ||.
SelectingChain(children) ==
    \A i \in 1..Len(children) :
        children[i].Type \in BinaryOps => children[i].Type \in {"OP_AND", "OP_OR"}

----------------------------------------------------------------------------
(* Properties of Parse *)

\* Parse has returned or panicked.
Parsed == stage = "parsed"

\* Parse has returned an AST and no error.
ParsedAST == Parsed /\ parsed.end = "return" /\ parsed.err = NoErr

\* C4: parser termination on malformed input.  For every token list Parse
\* terminates: also when the list ends inside a tag, it comes to an end (and
\* returns a parse error) instead of running forever.
C4_ParseTerminates == <>Parsed

\* C5: the parser never crashes.  For every token list, a tag that begins with
\* the keyword in included, Parse ends by returning an AST or an error, never by
\* a panic.
C5_ParseReturns == Parsed => parsed.end = "return"

\* The keyword a tag begins with, <<>> for a tag that begins with no keyword;
\* i is the index of the tag's OPEN_CURLY.
TagKeyword(toks, i) ==
    IF i + 1 <= Len(toks) /\ toks[i + 1].Type = "KEYWORD" THEN toks[i + 1].Value ELSE <<>>

\* The blocks of toks from token i on are matched and nested, open being the
\* stack of the blocks open at i: "if", "else" (an if past its else) or "for".
RECURSIVE NestedFrom(_, _, _)
NestedFrom(toks, i, open) ==
    IF i > Len(toks) THEN open = <<>>
    ELSE IF toks[i].Type # "OPEN_CURLY" THEN NestedFrom(toks, i + 1, open)
    ELSE LET kw  == TagKeyword(toks, i)
             top == IF open = <<>> THEN "none" ELSE open[Len(open)]
             below == IF open = <<>> THEN <<>> ELSE SubSeq(open, 1, Len(open) - 1)
         IN  CASE kw = kwIf     -> NestedFrom(toks, i + 1, Append(open, "if"))
               [] kw = kwFor    -> NestedFrom(toks, i + 1, Append(open, "for"))
               [] kw = kwElif   -> top = "if" /\ NestedFrom(toks, i + 1, open)
               [] kw = kwElse   -> top = "if" /\ NestedFrom(toks, i + 1, Append(below, "else"))
               [] kw = kwEndIf  -> top \in {"if", "else"} /\ NestedFrom(toks, i + 1, below)
               [] kw = kwEndFor -> top = "for" /\ NestedFrom(toks, i + 1, below)
               [] OTHER         -> NestedFrom(toks, i + 1, open)

WellNested(toks) == NestedFrom(toks, 1, <<>>)

\* A tag of toks begins with the keyword in.
HasInTag(toks) == \E i \in 1..Len(toks) : toks[i].Type = "OPEN_CURLY" /\ TagKeyword(toks, i) = kwIn

\* C6: well-nested blocks.  Parse returns an AST only if the block openers and
\* closers are matched and nested; a closer with no open block, an if not closed
\* by endif, a for not closed by endfor, a second else and an elif after else
\* make it return an error.
C6_WellNested ==
    /\ ParsedAST => WellNested(tokens)
    /\ (Parsed /\ ~WellNested(tokens) /\ ~HasInTag(tokens))
           => (parsed.end = "return" /\ parsed.err # NoErr)

\* {{ for x in xs }}{{ if a }}{{ endif }}{{ endfor }} gives a for node that
\* holds the if node.
C6_IfInsideFor ==
    /\ ParsedAST
    /\ Len(parsed.val) = 1
    /\ parsed.val[1].Type = "FOR_NODE"
    /\ parsed.val[1].Children[3].Type = "FOR_BODY"
    /\ Len(parsed.val[1].Children[3].Children) = 1
    /\ parsed.val[1].Children[3].Children[1].Type = "IF_NODE"

\* The nodes of the tokens of a tag from token i on, up to the ) that closes the
\* group begun before i or to the end: a group ( ... ) is one EXPRESSION_NODE
\* holding the nodes of the tokens between its parentheses.  [nodes, next].
RECURSIVE GroupFrom(_, _)
GroupFrom(toks, i) ==
    IF i > Len(toks) THEN [nodes |-> <<>>, next |-> i]
    ELSE IF toks[i].Type = "RPAREN" THEN [nodes |-> <<>>, next |-> i + 1]
    ELSE IF toks[i].Type = "LPAREN"
    THEN LET group == GroupFrom(toks, i + 1)
             rest  == GroupFrom(toks, group.next)
         IN  [nodes |-> <<ExprNode(group.nodes)>> \o rest.nodes, next |-> rest.next]
    ELSE LET rest == GroupFrom(toks, i + 1)
         IN  [nodes |-> (IF toks[i].Value \in DOMAIN Operators
                         THEN operatorNode(toks[i].Type, toks[i])
                         ELSE operandNode(toks[i])) \o rest.nodes,
              next |-> rest.next]

\* The tokens between the {{ and the }} of the last tag of toks.
LastTagBody(toks) ==
    LET open == CHOOSE i \in 1..Len(toks) :
                    toks[i].Type = "OPEN_CURLY"
                    /\ \A j \in (i + 1)..Len(toks) : toks[j].Type # "OPEN_CURLY"
    IN  SubSeq(toks, open + 1, Len(toks) - 1)

HasGroup(toks) == \E i \in 1..Len(toks) : toks[i].Type = "LPAREN"

\* C10: parenthesised grouping.  A tag with ( ... ) groups parses to an
\* Expression in which every group is one nested Expression child that holds
\* exactly the nodes of the group, at any depth of nesting.
C10_GroupIsNestedExpression ==
    (Parsed /\ HasGroup(tokens))
        => /\ parsed.end = "return" /\ parsed.err = NoErr
           /\ parsed.val[Len(parsed.val)] = ExprNode(GroupFrom(LastTagBody(tokens), 1).nodes)

\* The node type of each operator token of an expression tag.
OperatorNodeType ==
    ("AMPERSAND" :> "OP_AND") @@ ("PIPE" :> "OP_OR") @@ ("EQ" :> "OP_EQUALS")
    @@ ("NEQ" :> "OP_NOT_EQUALS") @@ ("GT" :> "OP_GT") @@ ("LT" :> "OP_LT")
    @@ ("GTE" :> "OP_GTE") @@ ("LTE" :> "OP_LTE") @@ ("BANG" :> "OP_BANG")
    @@ ("NULL_COALESCE" :> "OP_NULL_COALESCE")

\* node stands for the token tok: an Op node of the operator's type, or the
\* operand's node with the operand's text.
NodeOfToken(node, tok) ==
    IF tok.Type \in DOMAIN OperatorNodeType THEN node.Type = OperatorNodeType[tok.Type]
    ELSE <<node>> = operandNode(tok)

\* node is the Expression of the tag with this body: one child per token, in
\* source order.
ExpressionOf(node, body) ==
    /\ node.Type = "EXPRESSION_NODE"
    /\ Len(node.Children) = Len(body)
    /\ \A i \in 1..Len(body) : NodeOfToken(node.Children[i], body[i])

\* C11: expression nodes in source order.  An expression tag, at top level or as
\* the body of an if or a for, parses to an Expression node whose children are,
\* in source order, one node per operand token and one Op node per operator
\* token of the tag, ! and ?? included.
C11_SourceOrder ==
    \A b \in ExprBodies :
        /\ (Parsed /\ tokens = Tag(b))
               => (ParsedAST /\ Len(parsed.val) = 1 /\ ExpressionOf(parsed.val[1], b))
        /\ (Parsed /\ tokens = InIf(b))
               => /\ ParsedAST /\ Len(parsed.val) = 1
                  /\ Len(parsed.val[1].Children[1].Children) = 1
                  /\ ExpressionOf(parsed.val[1].Children[1].Children[1], b)
        /\ (Parsed /\ tokens = InFor(b))
               => /\ ParsedAST /\ Len(parsed.val) = 1
                  /\ Len(parsed.val[1].Children[3].Children) = 1
                  /\ ExpressionOf(parsed.val[1].Children[3].Children[1], b)

\* The tokens are a for tag with one of the headers that lack the keyword in
\* between two identifiers, a body and {{ endfor }}.
MalformedFor ==
    \E h \in ForHeaders, body \in {<<>>, Tag(<<Identifier(nX)>>)} :
        tokens = Tag(h) \o body \o Tag(<<Keyword(kwEndFor)>>)

\* C16: for header syntax.  Parse accepts a for tag only in the form
\* for IDENT in IDENT }}: a for tag without the keyword in between the iteratee
\* and the iterator makes it return an error; an accepted for is a For node
\* whose children are the iteratee name, the iterator name and the body, in
\* that order.
C16_ForHeader ==
    /\ (Parsed /\ MalformedFor) => (parsed.end = "return" /\ parsed.err # NoErr)
    /\ (Parsed /\ tokens = InFor(<<Identifier(nX)>>))
           => (ParsedAST /\ parsed.val = <<ForNode(nX, nXs, <<VarNode(nX)>>)>>)
    /\ ParsedAST
           => \A i \in 1..Len(parsed.val) :
                  parsed.val[i].Type = "FOR_NODE"
                     => [j \in 1..Len(parsed.val[i].Children) |-> parsed.val[i].Children[j].Type]
                            = <<"ITERATEE_ITEM", "ITERATOR_ITEM", "FOR_BODY">>

\* A tag of toks is an if or an elif tag with nothing between the keyword and }}.
HasNoCondition(toks) ==
    \E i \in 1..(Len(toks) - 2) :
        /\ toks[i].Type = "OPEN_CURLY"
        /\ TagKeyword(toks, i) \in {kwIf, kwElif}
        /\ toks[i + 2].Type = "CLOSE_CURLY"

\* C22: missing condition.  An if or elif tag with no condition between the
\* keyword and }} makes Parse return an error and no AST: no If node is made of
\* it.
C22_MissingCondition ==
    (Parsed /\ HasNoCondition(tokens))
        => (parsed.end = "return" /\ parsed.err # NoErr /\ parsed.val = <<>>)

\* {{ if }}t{{ endif }} : the blocks are matched, the condition is missing.
C22_IfWithoutCondition ==
    /\ Parsed
    /\ tokens = Tag(<<Keyword(kwIf)>>) \o <<Token("TEXT", <<"t">>)>> \o Tag(<<Keyword(kwEndIf)>>)
    /\ parsed.end = "return"
    /\ parsed.err = <<"error parsing if statement", "expected condition after 'if'">>

----------------------------------------------------------------------------
(* Properties of Tokenize and of the pipeline *)

Tokenized == stage = "tokens"

\* The pipeline has come to its end: Render has returned, or Parse has ended
\* without an AST.
PipelineDone ==
    \/ stage = "rendered"
    \/ stage = "parsed" /\ (parsed.end # "return" \/ parsed.err # NoErr)

HasOpenTag(src) == \E i \in 1..(Len(src) - 1) : src[i] = "{" /\ src[i + 1] = "{"

\* C17: round trip of literal text.  For every source without {{, single braces,
\* }}, quotes, spaces and bytes outside ASCII included, tokenize, parse and render
\* with the empty context succeed and return the source unchanged.
C17_LiteralRoundTrip ==
    (PipelineDone /\ ~HasOpenTag(lexer.rawText) /\ Context0 = <<>>)
        => (stage = "rendered" /\ rendered = [out |-> lexer.rawText, err |-> NoErr])

\* C18: lexer totality.  For every source, one that ends inside a tag or inside
\* a quoted string included, Tokenize comes to its return, having consumed
\* every byte of the source.
C18_TokenizeTerminates == <>(Tokenized /\ lexer.crrPos = Len(lexer.rawText))

\* {{'a : the source ends inside a string literal inside a tag.
C18_UnterminatedString ==
    /\ Tokenized
    /\ lexer.rawText = <<"{", "{", "'", "a">>
    /\ lexer.crrPos = 4
    /\ tokens = <<OpenCurly, Identifier(<<"'", "a">>)>>

\* toks from token i on: {{ and }} alternate, open telling whether a tag is
\* open at i; TEXT only outside a tag, every other token only inside one.
RECURSIVE TagsAlternate(_, _, _)
TagsAlternate(toks, i, open) ==
    IF i > Len(toks) THEN TRUE
    ELSE CASE toks[i].Type = "OPEN_CURLY"  -> ~open /\ TagsAlternate(toks, i + 1, TRUE)
           [] toks[i].Type = "CLOSE_CURLY" -> open /\ TagsAlternate(toks, i + 1, FALSE)
           [] toks[i].Type = "TEXT"        -> ~open /\ TagsAlternate(toks, i + 1, open)
           [] OTHER                        -> open /\ TagsAlternate(toks, i + 1, open)

\* C19: tags never nest in the token stream.  In the token list Tokenize builds
\* and returns, {{ and }} tokens alternate starting with {{, TEXT tokens are
\* outside the tags and all other tokens are between a {{ and the next }} or
\* the end of the input.
C19_TagsNeverNest ==
    /\ TagsAlternate(lexer.Tokens, 1, FALSE)
    /\ Tokenized => TagsAlternate(tokens, 1, FALSE)

\* {{{{ : the second {{ is inside the tag the first opened, and is no {{ token.
C19_OpenInsideTag ==
    /\ Tokenized
    /\ lexer.rawText = <<"{", "{", "{", "{">>
    /\ tokens = <<OpenCurly, Identifier(<<"{", "{">>)>>

\* v is a mapping with an entry k.
HasEntry(v) == v.t = "map" /\ nK \in DOMAIN v.m

\* The display strings of the entries k of the first n items, one after another.
RECURSIVE EntriesUpTo(_, _)
EntriesUpTo(items, n) ==
    IF n = 0 THEN <<>> ELSE EntriesUpTo(items, n - 1) \o Sprintf(items[n].m[nK])

\* C20: index access.  {{ a['k'] }} renders the display string of the entry k of
\* the mapping bound to a, and {{ x['k'] }} in the body of a loop over xs renders
\* that of the entry k of every element; if the name is not bound to a mapping,
\* or the mapping has no entry k, Render returns an error.
C20_IndexAccess ==
    PipelineDone =>
        /\ lexer.rawText = IndexTag =>
               /\ stage = "rendered"
               /\ IF nA \in DOMAIN Context0 /\ HasEntry(Context0[nA])
                  THEN rendered = [out |-> Sprintf(Context0[nA].m[nK]), err |-> NoErr]
                  ELSE rendered.err # NoErr
        /\ (lexer.rawText = IndexInLoop /\ nXs \in DOMAIN Context0) =>
               /\ stage = "rendered"
               /\ LET items == Context0[nXs].l
                  IN  IF \A i \in 1..Len(items) : HasEntry(items[i])
                      THEN rendered = [out |-> EntriesUpTo(items, Len(items)), err |-> NoErr]
                      ELSE rendered.err # NoErr

\* The tokens of the parts of a tag around a string literal.
PreTokens(pre) ==
    CASE pre = <<" ">>           -> <<>>
      [] pre = <<"a", " ">>      -> <<Identifier(nA)>>
      [] pre = <<"a", "=", "=">> -> <<Identifier(nA), Operator(<<"=", "=">>)>>
      [] pre = <<"!">>           -> <<Operator(<<"!">>)>>

PostTokens(post) == IF post = <<>> THEN <<>> ELSE <<CloseCurly>>

\* The indices of the quotes of src.
Quotes(src) == {i \in 1..Len(src) : src[i] = "'"}
FirstQuote(src) == CHOOSE i \in Quotes(src) : \A j \in Quotes(src) : i <= j
LastQuote(src)  == CHOOSE i \in Quotes(src) : \A j \in Quotes(src) : j <= i

\* src is {{ pre 'c' post; its parts.
PreOf(src)     == SubSeq(src, 3, FirstQuote(src) - 1)
ContentOf(src) == SubSeq(src, FirstQuote(src) + 1, LastQuote(src) - 1)
PostOf(src)    == SubSeq(src, LastQuote(src) + 1, Len(src))
IsLiteralSource(src) ==
    /\ Cardinality(Quotes(src)) = 2
    /\ Len(src) >= 2 /\ SubSeq(src, 1, 2) = <<"{", "{">>
    /\ PreOf(src) \in LiteralPres
    /\ PostOf(src) \in LiteralPosts

\* C27: string literals are opaque to the lexer.  For a literal 'c' inside a
\* tag, c without a quote, after a space or an operator, Tokenize gives one
\* STRING token whose value is c without the quotes: spaces, operator
\* characters and }} inside c are kept as they are, make no tokens of their
\* own and do not close the tag.
C27_OpaqueLiteral ==
    (Tokenized /\ IsLiteralSource(lexer.rawText))
        => tokens = <<OpenCurly>> \o PreTokens(PreOf(lexer.rawText))
                    \o <<Token("STRING", ContentOf(lexer.rawText))>>
                    \o PostTokens(PostOf(lexer.rawText))

=============================================================================
